---- MODULE Spec2Model ----
(***************************************************************************)
(* A model of the multi-agent coordination engine: the shared AgentState   *)
(* record, the GraphCoordinator execution loop, the routing table and the  *)
(* four handler nodes of the standard graph.                               *)
(***************************************************************************)
EXTENDS Integers, Sequences, FiniteSets, TLC

VARIABLES
    state,              \* the AgentState threaded through the graph
    nodes,              \* GraphCoordinator.nodes: name -> node function
    routing_functions,  \* GraphCoordinator.routing_functions: name -> routing function
    execution_log,      \* GraphCoordinator.execution_log
    pc,                 \* position of execute(): "loop", "resolve", "check", "done"
    trace,              \* history: the node invocations made so far, with the status on entry
    store,              \* the record store behind MCPClient
    mcp_client,         \* the mcp_client handed to the node factories
    classifier_log,     \* history: the intent analyses the classifier returned
    inboxes,            \* MessageBus.inboxes: registered name -> queue of messages
    message_history,    \* MessageBus.message_history
    message_counter,    \* MessageBus.message_counter
    running,            \* A2ACoordinator.running
    router,             \* the thread that calls process_query and runs the router
    pumps,              \* the message pump threads process_query has started
    received,           \* history: what receive_message has returned, per inbox
    outcome,            \* what the last call of the MessageBus interface returned or raised
    text_query,         \* the query handed to the agents' text functions
    text_answer         \* what the text functions have returned for it

engine_vars ==
    <<state, nodes, routing_functions, execution_log, pc, trace, store, mcp_client,
      classifier_log>>

bus_vars ==
    <<inboxes, message_history, message_counter, running, router, pumps, received,
      outcome>>

text_vars == <<text_query, text_answer>>

vars == <<engine_vars, bus_vars, text_vars>>

\* no text function has been called
NoAnswer ==
    [done |-> {}, operation |-> "", customer_id |-> <<>>, priority |-> "",
     fallback |-> <<>>]

\* a run of the engine or of the bus calls no text function on its own
NoText ==
    /\ text_query = <<>>
    /\ text_answer = NoAnswer

\* the graph engine runs without a MessageBus
NoBus ==
    /\ inboxes = <<>>
    /\ message_history = <<>>
    /\ message_counter = 0
    /\ running = FALSE
    /\ router = [pc |-> "absent"]
    /\ pumps = <<>>
    /\ received = <<>>
    /\ outcome = [op |-> "none"]

(***************************************************************************)
(* Bounds of the model.                                                    *)
(***************************************************************************)
\* max_iterations is drawn from 0..MaxCeiling and the default ceiling
MaxCeiling == 4

\* AgentState.max_iterations default
DefaultMaxIterations == 10

(***************************************************************************)
(* Text.  A query is a sequence of characters; keyword tests are Python's  *)
(* substring test on the lower-cased query.                                *)
(***************************************************************************)
UpperToLower ==
    ("A" :> "a") @@ ("B" :> "b") @@ ("C" :> "c") @@ ("D" :> "d") @@ ("E" :> "e") @@ ("F" :> "f") @@
    ("G" :> "g") @@ ("H" :> "h") @@ ("I" :> "i") @@ ("J" :> "j") @@ ("K" :> "k") @@ ("L" :> "l") @@
    ("M" :> "m") @@ ("N" :> "n") @@ ("O" :> "o") @@ ("P" :> "p") @@ ("Q" :> "q") @@ ("R" :> "r") @@
    ("S" :> "s") @@ ("T" :> "t") @@ ("U" :> "u") @@ ("V" :> "v") @@ ("W" :> "w") @@ ("X" :> "x") @@
    ("Y" :> "y") @@ ("Z" :> "z")

\* str.lower() on one character
LowerChar(c) == IF c \in DOMAIN UpperToLower THEN UpperToLower[c] ELSE c

\* str.lower()
Lower(q) == [i \in 1..Len(q) |-> LowerChar(q[i])]

\* kw in text
IsSubstr(kw, text) ==
    \E i \in 1..(Len(text) - Len(kw) + 1) : SubSeq(text, i, i + Len(kw) - 1) = kw

\* any(keyword in text for keyword in keywords)
AnyKeyword(keywords, text) ==
    \E k \in 1..Len(keywords) : IsSubstr(keywords[k], text)

Digits == {"0","1","2","3","4","5","6","7","8","9"}

DigitValue ==
    ("0" :> 0) @@ ("1" :> 1) @@ ("2" :> 2) @@ ("3" :> 3) @@ ("4" :> 4) @@
    ("5" :> 5) @@ ("6" :> 6) @@ ("7" :> 7) @@ ("8" :> 8) @@ ("9" :> 9)

\* int(digits)
RECURSIVE ToInt(_)
ToInt(ds) ==
    IF ds = <<>> THEN 0
    ELSE 10 * ToInt(SubSeq(ds, 1, Len(ds) - 1)) + DigitValue[ds[Len(ds)]]

\* the end of the longest run of characters satisfying a class, from position i
RECURSIVE RunEnd(_, _, _)
RunEnd(text, i, class) ==
    IF i <= Len(text) /\ text[i] \in class THEN RunEnd(text, i + 1, class) ELSE i

\* the (\d+) group, given where the literal ends (a), where the digits start (b)
\* and where they end (e); <<>> if the pattern does not match at position i
Group(text, i, lit, gap, a, b, e) ==
    IF /\ a - 1 <= Len(text)
       /\ SubSeq(text, i, a - 1) = lit
       /\ (gap => b > a)
       /\ e > b
    THEN SubSeq(text, b, e - 1)
    ELSE <<>>

\* the digits of  <lit>\s+(\d+)  from the end of the literal at a
GroupFrom(text, i, lit, gap, a, b) ==
    Group(text, i, lit, gap, a, b, RunEnd(text, b, Digits))

\* the (\d+) group of  <lit>\s+(\d+)  matched at position i, or <<>> if no match there;
\* with gap = FALSE the pattern is <lit>(\d+)
MatchAt(text, i, lit, gap) ==
    GroupFrom(text, i, lit, gap, i + Len(lit),
              IF gap THEN RunEnd(text, i + Len(lit), {" "}) ELSE i + Len(lit))

\* the least element of a non-empty set of positions
Leftmost(hits) == CHOOSE i \in hits : \A j \in hits : i <= j

\* re.search: the group of the leftmost match, or <<>> if there is none
Search(text, lit, gap) ==
    IF \A i \in 1..Len(text) : MatchAt(text, i, lit, gap) = <<>>
    THEN <<>>
    ELSE MatchAt(text,
                 Leftmost({i \in 1..Len(text) : MatchAt(text, i, lit, gap) # <<>>}),
                 lit, gap)

(***************************************************************************)
(* Keyword tables of the agents and the queries of the model.             *)
(***************************************************************************)
\* CustomerDataAgent.process: verbs of the retrieve branch
retrieve_verbs ==
    << <<"g","e","t">>,
       <<"s","h","o","w">>,
       <<"f","i","n","d">> >>

\* CustomerDataAgent.process: verbs of the update branch
update_verbs ==
    << <<"u","p","d","a","t","e">>,
       <<"c","h","a","n","g","e">>,
       <<"m","o","d","i","f","y">> >>

\* CustomerDataAgent.process: verbs of the list branch
list_verbs ==
    << <<"l","i","s","t">>,
       <<"a","l","l">> >>

\* support_agent_node: ticket_keywords
ticket_keywords ==
    << <<"i","s","s","u","e">>,
       <<"p","r","o","b","l","e","m">>,
       <<"e","r","r","o","r">>,
       <<"b","u","g">>,
       <<"n","o","t"," ","w","o","r","k","i","n","g">>,
       <<"b","i","l","l","i","n","g">>,
       <<"h","e","l","p">>,
       <<"s","u","p","p","o","r","t">> >>

\* SupportAgent.assess_priority: high_priority_keywords
high_priority_keywords ==
    << <<"u","r","g","e","n","t">>,
       <<"i","m","m","e","d","i","a","t","e","l","y">>,
       <<"a","s","a","p">>,
       <<"c","r","i","t","i","c","a","l">>,
       <<"b","i","l","l","i","n","g">>,
       <<"c","h","a","r","g","e","d">>,
       <<"r","e","f","u","n","d">>,
       <<"s","e","c","u","r","i","t","y">>,
       <<"h","a","c","k">>,
       <<"b","r","e","a","c","h">>,
       <<"d","o","w","n">>,
       <<"o","u","t","a","g","e">> >>

\* SupportAgent.assess_priority: medium_priority_keywords
medium_priority_keywords ==
    << <<"u","p","g","r","a","d","e">>,
       <<"c","h","a","n","g","e">>,
       <<"m","o","d","i","f","y">>,
       <<"r","e","q","u","e","s","t">>,
       <<"f","e","a","t","u","r","e">>,
       <<"i","m","p","r","o","v","e","m","e","n","t">> >>

kw_customer == <<"c","u","s","t","o","m","e","r">>

kw_active == <<"a","c","t","i","v","e">>

lit_id == <<"i","d">>

lit_customer == <<"c","u","s","t","o","m","e","r">>

lit_hash == <<"#">>

\* "Get customer information for ID 5"
QueryGetInfo ==
    <<"G","e","t"," ","c","u","s","t","o","m","e","r"," ","i","n","f","o","r","m","a","t","i","o","n"," ","f","o","r"," ","I","D"," ","5">>

\* "I need help with my account, customer ID 1"
QueryAccountHelp ==
    <<"I"," ","n","e","e","d"," ","h","e","l","p"," ","w","i","t","h"," ","m","y"," ","a","c","c","o","u","n","t",","," ","c","u","s","t","o","m","e","r"," ","I","D"," ","1">>

\* "List all active customers"
QueryListAll ==
    <<"L","i","s","t"," ","a","l","l"," ","a","c","t","i","v","e"," ","c","u","s","t","o","m","e","r","s">>

\* "I have a billing issue and need a refund"
QueryBilling ==
    <<"I"," ","h","a","v","e"," ","a"," ","b","i","l","l","i","n","g"," ","i","s","s","u","e"," ","a","n","d"," ","n","e","e","d"," ","a"," ","r","e","f","u","n","d">>

\* "Update customer 5 email to newemail@example.com"
QueryUpdateEmail ==
    <<"U","p","d","a","t","e"," ","c","u","s","t","o","m","e","r"," ","5"," ","e","m","a","i","l"," ","t","o"," ","n","e","w","e","m","a","i","l","@","e","x","a","m","p","l","e",".","c","o","m">>

Queries ==
    {QueryGetInfo, QueryAccountHelp, QueryListAll, QueryBilling, QueryUpdateEmail}

(***************************************************************************)
(* Values shared by the state record, the agents and the record store.    *)
(***************************************************************************)
\* None, for an Optional[str] such as next_agent
NoAgent == "None"

\* None, for an Optional[Dict] / Optional[List] such as customer_data
NoData == [kind |-> "None"]

\* data or {}  in add_message
EmptyData == [kind |-> "empty"]

Terminal == {"completed", "error"}

\* a piece of human-readable text: what it says and the values formatted into it
Part(tag, args, n) == [part |-> tag, args |-> args, n |-> n]

Range(f) == {f[i] : i \in DOMAIN f}

(***************************************************************************)
(* The record store (MCPServer behind MCPClient).                          *)
(***************************************************************************)
CustomerIds == {1, 5}

CustomerName == (1 :> "Alice Johnson") @@ (5 :> "Eve Martinez")

Customer(id) ==
    [kind |-> "customer", id |-> id, name |-> CustomerName[id], status |-> "active"]

\* the rows of a set of customer ids, in id order
RECURSIVE Rows(_)
Rows(ids) ==
    IF ids = {} THEN <<>>
    ELSE LET lo == CHOOSE i \in ids : \A j \in ids : i <= j
         IN  <<Customer(lo)>> \o Rows(ids \ {lo})

\* MCPServer.get_customer
get_customer(st, id) ==
    IF ~st.up
    THEN [success |-> FALSE, customer |-> NoData, error |-> "Database error"]
    ELSE IF id \in st.customers
    THEN [success |-> TRUE, customer |-> Customer(id), error |-> ""]
    ELSE [success |-> FALSE, customer |-> NoData, error |-> "not found"]

\* MCPServer.list_customers: every customer of the store has status active
list_customers(st, status) ==
    IF ~st.up
    THEN [success |-> FALSE, count |-> 0, customers |-> <<>>, error |-> "Database error"]
    ELSE [success |-> TRUE, count |-> Cardinality(st.customers),
          customers |-> Rows(st.customers), error |-> ""]

\* MCPServer.update_customer, for data = {'email': ...}
update_customer(st, id) ==
    LET customer == get_customer(st, id)
    IN  IF ~customer.success
        THEN [success |-> FALSE, error |-> customer.error]
        ELSE [success |-> TRUE, error |-> ""]

\* MCPServer.create_ticket
create_ticket(st, id) ==
    IF get_customer(st, id).success
    THEN [kind |-> "ticket", success |-> TRUE, ticket_id |-> st.tickets + 1]
    ELSE [kind |-> "ticket", success |-> FALSE, ticket_id |-> 0]

(***************************************************************************)
(* CustomerDataAgent.                                                      *)
(***************************************************************************)
\* the first non-empty group in pattern order; <<>> is None
FirstGroup(m1, m2, m3) ==
    IF m1 # <<>> THEN m1 ELSE IF m2 # <<>> THEN m2 ELSE m3

\* extract_customer_id that tries the patterns in the opposite order
extract_customer_id_HashFirst(query) ==
    FirstGroup(Search(Lower(query), lit_hash, FALSE),
               Search(Lower(query), lit_customer, TRUE),
               Search(Lower(query), lit_id, TRUE))

\* CustomerDataAgent.extract_customer_id: the three patterns, tried in order on
\* the lower-cased query
extract_customer_id(query) ==
    FirstGroup(Search(Lower(query), lit_id, TRUE),
               Search(Lower(query), lit_customer, TRUE),
               Search(Lower(query), lit_hash, FALSE))

Letters == DOMAIN UpperToLower \cup Range(UpperToLower)

\* \w
WordChars == Letters \cup Digits \cup {"_"}

\* [\w\.-]
AddressChars == WordChars \cup {".", "-"}

\* re.search(r'[\w\.-]+@[\w\.-]+\.\w+', query) finds a match
HasEmail(query) ==
    \E i \in 2..Len(query) :
        /\ query[i] = "@"
        /\ query[i - 1] \in AddressChars
        /\ \E j \in (i + 2)..(Len(query) - 1) :
              /\ \A k \in (i + 1)..(j - 1) : query[k] \in AddressChars
              /\ query[j] = "."
              /\ query[j + 1] \in WordChars

\* the operation type CustomerDataAgent.process infers from the query
operation_of(query) ==
    LET query_lower == Lower(query)
    IN  IF AnyKeyword(retrieve_verbs, query_lower) THEN "retrieve"
        ELSE IF AnyKeyword(update_verbs, query_lower) THEN "update"
        ELSE IF AnyKeyword(list_verbs, query_lower) THEN "list"
        ELSE "retrieve"

\* a result dictionary of process; operation "None" and payload NoData are absent keys
Result(success, operation, payload, content) ==
    [success |-> success, operation |-> operation, payload |-> payload,
     content |-> content]

\* assess_priority that tests the medium tier before the high tier
assess_priority_MediumFirst(query) ==
    LET query_lower == Lower(query)
    IN  IF AnyKeyword(medium_priority_keywords, query_lower) THEN "medium"
        ELSE IF AnyKeyword(high_priority_keywords, query_lower) THEN "high"
        ELSE "low"

\* SupportAgent.assess_priority: the first matching tier wins
assess_priority(query) ==
    LET query_lower == Lower(query)
    IN  IF AnyKeyword(high_priority_keywords, query_lower) THEN "high"
        ELSE IF AnyKeyword(medium_priority_keywords, query_lower) THEN "medium"
        ELSE "low"

\* the retrieve branch of process, given the store's answer
retrieve_result(result) ==
    IF result.success
    THEN Result(TRUE, "retrieve", result.customer,
                Part("Customer", <<result.customer.name, result.customer.status>>,
                     result.customer.id))
    ELSE Result(FALSE, "retrieve", NoData,
                Part("Failed to retrieve customer", <<result.error>>, 0))

\* the list branch of process, given the store's answer
list_result(result) ==
    IF result.success
    THEN Result(TRUE, "list", [kind |-> "customers", customers |-> result.customers],
                Part("Found customers", <<>>, result.count))
    ELSE Result(FALSE, "list", NoData,
                Part("Failed to list customers", <<result.error>>, 0))

\* the update branch of process, given the store's answer
update_result(result, id) ==
    IF result.success
    THEN Result(TRUE, "update", NoData, Part("Updated customer", <<>>, id))
    ELSE Result(FALSE, "None", NoData, Part(result.error, <<>>, 0))

\* what the agents compute from the text of a query alone, computed once per query
QueryFactsOf(query) ==
    [operation |-> operation_of(query),
     customer_id |-> extract_customer_id(query),
     has_email |-> HasEmail(query),
     active |-> IsSubstr(kw_active, Lower(query)),
     mentions_customer |-> IsSubstr(kw_customer, Lower(query)),
     needs_ticket |-> AnyKeyword(ticket_keywords, Lower(query)),
     priority |-> assess_priority(query)]

QueryFacts == [q \in Queries |-> QueryFactsOf(q)]

\* CustomerDataAgent.process, given the facts of the query
process_as(facts, st) ==
    IF facts.operation = "retrieve"
    THEN IF facts.customer_id # <<>>
         THEN retrieve_result(get_customer(st, ToInt(facts.customer_id)))
         ELSE Result(FALSE, "None", NoData, Part("Please provide a customer ID", <<>>, 0))
    ELSE IF facts.operation = "list"
    THEN list_result(list_customers(st, IF facts.active THEN "active" ELSE "None"))
    ELSE IF facts.customer_id = <<>>
    THEN Result(FALSE, "None", NoData,
                Part("Please provide a customer ID to update", <<>>, 0))
    ELSE IF facts.has_email
    THEN update_result(update_customer(st, ToInt(facts.customer_id)),
                       ToInt(facts.customer_id))
    ELSE Result(FALSE, "None", NoData,
                Part("Could not find data to update in query", <<>>, 0))

\* CustomerDataAgent.process
process(query, st) == process_as(QueryFacts[query], st)

\* the record store after process: a successful update marks the customer
store_after(facts, st) ==
    IF /\ facts.operation = "update"
       /\ facts.customer_id # <<>>
       /\ facts.has_email
       /\ update_customer(st, ToInt(facts.customer_id)).success
    THEN [st EXCEPT !.updated = @ \cup {ToInt(facts.customer_id)}]
    ELSE st

\* the record store after CustomerDataAgent.process
process_store(query, st) == store_after(QueryFacts[query], st)

(***************************************************************************)
(* AgentState.                                                             *)
(***************************************************************************)
\* AgentState(query=..., current_agent=..., max_iterations=...), other fields default
NewAgentState(query, current_agent, max_iterations) ==
    [query |-> query,
     current_agent |-> current_agent,
     next_agent |-> NoAgent,
     coordination_history |-> <<>>,
     customer_data |-> NoData,
     tickets_data |-> NoData,
     messages |-> <<>>,
     final_response |-> <<>>,
     status |-> "in_progress",
     iteration_count |-> 0,
     max_iterations |-> max_iterations]

\* add_message that keeps only the newest entry of the message log
add_message_KeepsNewest(s, from_agent, to_agent, content, data) ==
    [s EXCEPT
        !.messages = <<[from |-> from_agent, to |-> to_agent,
                        content |-> content, data |-> data]>>,
        !.coordination_history =
            Append(@, [step |-> Len(@) + 1, from |-> from_agent, to |-> to_agent,
                       message |-> content])]

\* AgentState.add_message (the wall-clock timestamp of an entry is left out)
add_message(s, from_agent, to_agent, content, data) ==
    [s EXCEPT
        !.messages = Append(@, [from |-> from_agent, to |-> to_agent,
                                content |-> content, data |-> data]),
        !.coordination_history =
            Append(@, [step |-> Len(@) + 1, from |-> from_agent, to |-> to_agent,
                       message |-> content])]

MaxStepsResponse == <<Part("Max coordination steps reached", <<>>, 0)>>

\* increment_iteration that forgets to count the iteration
increment_iteration_NoCount(s) ==
    IF s.iteration_count >= s.max_iterations
    THEN [s EXCEPT !.status = "error", !.final_response = MaxStepsResponse]
    ELSE s

\* increment_iteration that raises the error only beyond the ceiling
increment_iteration_LateCeiling(s) ==
    IF s.iteration_count + 1 > s.max_iterations
    THEN [s EXCEPT !.iteration_count = @ + 1, !.status = "error",
                   !.final_response = MaxStepsResponse]
    ELSE [s EXCEPT !.iteration_count = @ + 1]

\* AgentState.increment_iteration
increment_iteration(s) ==
    LET s1 == [s EXCEPT !.iteration_count = @ + 1]
    IN  IF s1.iteration_count >= s1.max_iterations
        THEN [s1 EXCEPT !.status = "error", !.final_response = MaxStepsResponse]
        ELSE s1

\* truthiness of customer_data / tickets_data
HasData(d) == d.kind # "None"

(***************************************************************************)
(* The nodes of agent_nodes.py.                                            *)
(***************************************************************************)
Capabilities == {"Customer Data Agent", "Support Agent", "Billing Agent"}

\* router_node: agent_map
agent_map ==
    ("Customer Data Agent" :> "data_agent") @@ ("Support Agent" :> "support_agent")

\* router_node that hands every query on to synthesis, whatever the classifier says
router_node_AlwaysHandsOff(s, intent) ==
    add_message([s EXCEPT !.next_agent = "router_final"], "router", "router_final",
                Part("Please handle this query", <<>>, 0),
                [kind |-> "intent", intent |-> intent])

\* router_node, for the intent analysis the classifier returned
router_node(s, intent) ==
    LET required_agents == intent.requires_agents
    IN  IF required_agents = <<>>
        THEN [s EXCEPT !.final_response = <<Part("I'm not sure I understand", <<>>, 0)>>,
                       !.status = "completed"]
        ELSE IF required_agents[1] \in DOMAIN agent_map
        THEN LET next_agent_name == agent_map[required_agents[1]]
             IN  add_message([s EXCEPT !.next_agent = next_agent_name],
                             "router", next_agent_name,
                             Part("Please handle this query", <<>>, 0),
                             [kind |-> "intent", intent |-> intent])
        ELSE [s EXCEPT !.status = "error",
                       !.final_response =
                           <<Part("Could not route query to appropriate agent", <<>>, 0)>>]

\* data_agent_node that reports the result but does not store the customer
data_agent_update_DropsCustomer(s, result) ==
    [add_message(s, "data_agent", "router", result.content,
                 [kind |-> "result", success |-> result.success,
                  operation |-> result.operation])
     EXCEPT !.next_agent = "router_final"]

\* data_agent_node that turns a failed result into a failed run
data_agent_update_ErrorOnFailure(s, result) ==
    [add_message(s, "data_agent", "router", result.content,
                 [kind |-> "result", success |-> result.success,
                  operation |-> result.operation])
     EXCEPT !.next_agent = "router_final",
            !.status = IF result.success THEN @ ELSE "error"]

\* data_agent_node, given the result of data_agent.process
data_agent_update(s, result) ==
    [add_message(
        IF result.success /\ result.payload.kind = "customer"
        THEN [s EXCEPT !.customer_data = result.payload]
        ELSE IF result.success /\ result.payload.kind = "customers"
        THEN [s EXCEPT !.customer_data =
                  [kind |-> "customers", customers |-> result.payload.customers]]
        ELSE s,
        "data_agent", "router", result.content,
        [kind |-> "result", success |-> result.success,
         operation |-> result.operation])
     EXCEPT !.next_agent = "router_final"]

\* data_agent_node
data_agent_node(s, st) == data_agent_update(s, process(s.query, st))

\* support_agent_node: the outcome of the ticket block.  An MCPClient has no
\* call_tool method, so the call raises and the except clause swallows it;
\* a client that offers call_tool reaches the store's create_ticket.
TicketCall(s, client, st) ==
        /\ QueryFacts[s.query].needs_ticket
        /\ HasData(s.customer_data)
        /\ client # "None"
        /\ s.customer_data.kind = "customer"
        /\ client = "ToolClient"

\* a support_agent_node that greets before it asks for the customer context
support_agent_node_RespondsBeforeRedirect(s, client, st) ==
    add_message([s EXCEPT !.next_agent = "data_agent",
                          !.final_response =
                              <<Part("I understand you need help", <<>>, 0)>>],
                "support_agent", "data_agent",
                Part("I need customer context to handle this support request",
                     <<>>, 0),
                EmptyData)

\* support_agent_node
support_agent_node(s, client, st) ==
    LET priority == QueryFacts[s.query].priority
        needs_ticket == QueryFacts[s.query].needs_ticket
    IN  IF ~HasData(s.customer_data) /\ QueryFacts[s.query].mentions_customer
        THEN add_message([s EXCEPT !.next_agent = "data_agent"],
                         "support_agent", "data_agent",
                         Part("I need customer context to handle this support request",
                              <<>>, 0),
                         EmptyData)
        ELSE LET s1 == IF TicketCall(s, client, st)
                       THEN [s EXCEPT !.tickets_data =
                                [kind |-> "list",
                                 items |-> <<create_ticket(st, s.customer_data.id)>>]]
                       ELSE s
                 greeting ==
                     IF HasData(s1.customer_data)
                     THEN Part("Hello, I understand you need help",
                               <<IF s1.customer_data.kind = "customer"
                                 THEN s1.customer_data.name ELSE "Customer">>, 0)
                     ELSE Part("I understand you need help", <<>>, 0)
                 ticket ==
                     IF needs_ticket
                     THEN <<Part("I've created a ticket", <<priority>>, 0)>>
                     ELSE <<>>
                 s2 == [s1 EXCEPT !.final_response =
                           <<greeting>> \o ticket
                           \o <<Part("Our team will assist you shortly", <<>>, 0)>>]
                 s3 == add_message(s2, "support_agent", "router",
                                   Part("Support response ready", <<>>, 0),
                                   [kind |-> "support", priority |-> priority,
                                    ticket_created |-> needs_ticket])
             IN  [s3 EXCEPT !.next_agent = "router_final"]

\* the record store after support_agent_node
support_store(s, client, st) ==
    IF /\ ~(~HasData(s.customer_data) /\ QueryFacts[s.query].mentions_customer)
       /\ TicketCall(s, client, st)
       /\ create_ticket(st, s.customer_data.id).success
    THEN [st EXCEPT !.tickets = @ + 1]
    ELSE st

\* router_final_node that writes its acknowledgment over any response
router_final_node_Overwrites(s) ==
    [s EXCEPT !.final_response = <<Part("Query processed successfully", <<>>, 0)>>,
              !.status = "completed", !.next_agent = NoAgent]

\* router_final_node
router_final_node(s) ==
    LET customer_part ==
            IF HasData(s.customer_data)
            THEN <<Part("Customer",
                        IF s.customer_data.kind = "customer"
                        THEN <<s.customer_data.name, s.customer_data.status>>
                        ELSE <<"Unknown", "Unknown">>, 0)>>
            ELSE <<>>
        tickets_part ==
            IF HasData(s.tickets_data) /\ s.tickets_data.items # <<>>
            THEN <<Part("Tickets found", <<>>, Len(s.tickets_data.items))>>
            ELSE <<>>
        response_parts == customer_part \o tickets_part
        s1 == IF s.final_response = <<>>
              THEN [s EXCEPT !.final_response =
                        IF response_parts # <<>> THEN response_parts
                        ELSE <<Part("Query processed successfully", <<>>, 0)>>]
              ELSE s
    IN  [s1 EXCEPT !.status = "completed", !.next_agent = NoAgent]

\* a node function registered by a caller of add_node other than the four above:
\* it may set the status and the next-agent hint ("keep" leaves the field alone)
stub_node(s, set_status, set_hint) ==
    LET s1 == IF set_status = "keep" THEN s ELSE [s EXCEPT !.status = set_status]
    IN  IF set_hint = "keep" THEN s1 ELSE [s1 EXCEPT !.next_agent = set_hint]

(***************************************************************************)
(* routing_logic.py.                                                       *)
(***************************************************************************)
\* router_routing without its test of the status
router_routing_IgnoresStatus(s) == s.next_agent

router_routing(s) ==
    IF s.status \in Terminal THEN NoAgent ELSE s.next_agent

\* a data_agent_routing that always hands the query on to the support agent
data_agent_routing_BackToSupport(s) ==
    IF s.status \in Terminal THEN NoAgent ELSE "support_agent"

\* data_agent_routing
data_agent_routing(s) ==
    IF s.status \in Terminal THEN NoAgent
    ELSE IF s.next_agent # NoAgent THEN s.next_agent
    ELSE "router_final"

support_agent_routing(s) ==
    IF s.status \in Terminal THEN NoAgent
    ELSE IF s.next_agent = "data_agent" THEN "data_agent"
    ELSE "router_final"

router_final_routing(s) == NoAgent

ROUTING_MAP ==
    [n \in {"router", "data_agent", "support_agent", "router_final"} |->
        CASE n = "router" -> "router_routing"
          [] n = "data_agent" -> "data_agent_routing"
          [] n = "support_agent" -> "support_agent_routing"
          [] n = "router_final" -> "router_final_routing"]

\* the call  self.routing_functions[current](state)  for a registered routing
\* function f; "goto_A", "goto_B" and "route_none" are constant routing functions
\* a caller of add_conditional_edges may register
ApplyRouting(f, s) ==
    CASE f = "router_routing" -> router_routing(s)
      [] f = "data_agent_routing" -> data_agent_routing(s)
      [] f = "support_agent_routing" -> support_agent_routing(s)
      [] f = "router_final_routing" -> router_final_routing(s)
      [] f = "goto_A" -> "A"
      [] f = "goto_B" -> "B"
      [] f = "route_none" -> NoAgent

(***************************************************************************)
(* Registrations: what add_node and add_conditional_edges have stored      *)
(* before execute is called.                                               *)
(***************************************************************************)
\* MultiAgentCoordinator._setup_graph: the four nodes of the standard graph
StandardNodes ==
    [n \in {"router", "data_agent", "support_agent", "router_final"} |->
        CASE n = "router" -> "router_node"
          [] n = "data_agent" -> "data_agent_node"
          [] n = "support_agent" -> "support_agent_node"
          [] n = "router_final" -> "router_final_node"]

StubNames == {"A", "B"}

\* add_node on some of the names A, B: a passive node returns the state as it got
\* it, a free node sets status and next-agent hint as it likes
StubNodeRegistrations ==
    UNION {[S -> {"passive_stub", "free_stub"}] : S \in SUBSET StubNames}

\* add_conditional_edges on some of the names A, B
StubRoutingRegistrations ==
    UNION {[S -> {"goto_A", "goto_B", "route_none", "router_routing"}] :
              S \in SUBSET StubNames}

\* the ceilings a caller may construct the AgentState with
MaxIterChoices == (0..MaxCeiling) \cup {DefaultMaxIterations}

\* the record stores a run may meet
Stores ==
    {[up |-> u, customers |-> c, tickets |-> 0, updated |-> {}] :
        u \in BOOLEAN, c \in {{}, {1}, {5}, {1, 5}}}

\* the mcp_client argument of MultiAgentCoordinator: none, an MCPClient
\* (which has no call_tool), or a client that offers call_tool
Clients == {"None", "MCPClient", "ToolClient"}

\* the longest requires_agents list the classifier returns in the model
MaxRequired == 2

\* the intent analyses RouterAgent.analyze_intent may return
Intents ==
    {[requires_agents |-> r] :
        r \in {q \in UNION {[1..k -> Capabilities] : k \in 0..MaxRequired} :
                  \A i, j \in DOMAIN q : i # j => q[i] # q[j]}}

\* MultiAgentCoordinator.__init__ and process_query, up to the call of execute
InitStandard ==
    /\ nodes = StandardNodes
    /\ routing_functions = ROUTING_MAP
    /\ \E q \in Queries, m \in MaxIterChoices : state = NewAgentState(q, "router", m)
    /\ store \in Stores
    /\ mcp_client \in Clients

\* a GraphCoordinator a caller has set up itself
InitStub ==
    /\ nodes \in StubNodeRegistrations
    /\ routing_functions \in StubRoutingRegistrations
    /\ \E a \in StubNames, m \in MaxIterChoices :
          state = NewAgentState(QueryGetInfo, a, m)
    /\ store = [up |-> TRUE, customers |-> {}, tickets |-> 0, updated |-> {}]
    /\ mcp_client = "None"

Init ==
    /\ InitStandard \/ InitStub
    /\ execution_log = <<>>
    /\ pc = "loop"
    /\ trace = <<>>
    /\ classifier_log = <<>>
    /\ NoBus
    /\ NoText

(***************************************************************************)
(* GraphCoordinator.execute, one action per step of its loop.              *)
(***************************************************************************)
\* the while condition of execute
LoopCondition(s) ==
    s.status = "in_progress" /\ s.iteration_count < s.max_iterations

\* the loop is entered: increment_iteration runs first
EnterIteration ==
    /\ pc = "loop"
    /\ LoopCondition(state)
    /\ state' = increment_iteration(state)
    /\ pc' = "resolve"
    /\ UNCHANGED <<bus_vars, text_vars>>
    /\ UNCHANGED <<nodes, routing_functions, execution_log, trace, store, mcp_client,
                   classifier_log>>

\* the while condition is false: execute returns
ExitLoop ==
    /\ pc = "loop"
    /\ ~LoopCondition(state)
    /\ pc' = "done"
    /\ UNCHANGED <<bus_vars, text_vars>>
    /\ UNCHANGED <<state, nodes, routing_functions, execution_log, trace, store,
                   mcp_client, classifier_log>>

\* the unknown-agent branch without its status assignment
UnknownAgentState_KeepsStatus(s) == s

\* current_agent is not in self.nodes: state.status = "error"
UnknownAgentState(s) == [s EXCEPT !.status = "error"]

UnknownAgent ==
    /\ pc = "resolve"
    /\ state.current_agent \notin DOMAIN nodes
    /\ state' = UnknownAgentState(state)
    /\ pc' = "done"
    /\ UNCHANGED <<bus_vars, text_vars>>
    /\ UNCHANGED <<nodes, routing_functions, execution_log, trace, store, mcp_client,
                   classifier_log>>

\* whether execute calls the node function at this point
MayInvoke(s, registry) == s.current_agent \in DOMAIN registry

\* the record of one node invocation
Invocation(s) ==
    [node |-> s.current_agent, status |-> s.status,
     has_customer_data |-> HasData(s.customer_data),
     iteration |-> s.iteration_count]

\* state = node_func(state), for the node function f
Invoke(f) ==
    /\ pc = "resolve"
    /\ MayInvoke(state, nodes)
    /\ nodes[state.current_agent] = f
    /\ trace' = Append(trace, Invocation(state))
    /\ pc' = "check"
    /\ UNCHANGED <<bus_vars, text_vars>>
    /\ UNCHANGED <<nodes, routing_functions, execution_log, mcp_client>>

RunRouterNode ==
    /\ Invoke("router_node")
    /\ \E intent \in Intents :
          /\ state' = router_node(state, intent)
          /\ classifier_log' = Append(classifier_log, intent)
    /\ UNCHANGED store

RunDataAgentNode ==
    /\ Invoke("data_agent_node")
    /\ state' = data_agent_node(state, store)
    /\ store' = process_store(state.query, store)
    /\ UNCHANGED classifier_log

RunSupportAgentNode ==
    /\ Invoke("support_agent_node")
    /\ state' = support_agent_node(state, mcp_client, store)
    /\ store' = support_store(state, mcp_client, store)
    /\ UNCHANGED classifier_log

RunRouterFinalNode ==
    /\ Invoke("router_final_node")
    /\ state' = router_final_node(state)
    /\ UNCHANGED <<store, classifier_log>>

RunPassiveStub ==
    /\ Invoke("passive_stub")
    /\ state' = stub_node(state, "keep", "keep")
    /\ UNCHANGED <<store, classifier_log>>

RunFreeStub ==
    /\ Invoke("free_stub")
    /\ \E st \in {"keep", "completed", "error"}, h \in {"keep", NoAgent} \cup StubNames :
          state' = stub_node(state, st, h)
    /\ UNCHANGED <<store, classifier_log>>

\* the node returned a terminal status: break
NodeFinished ==
    /\ pc = "check"
    /\ state.status \in Terminal
    /\ pc' = "done"
    /\ UNCHANGED <<bus_vars, text_vars>>
    /\ UNCHANGED <<state, nodes, routing_functions, execution_log, trace, store,
                   mcp_client, classifier_log>>

\* GraphCoordinator.route_next: the next agent, or NoAgent
route_next(s, routing) ==
    IF s.current_agent \in DOMAIN routing
    THEN ApplyRouting(routing[s.current_agent], s)
    ELSE NoAgent

\* GraphCoordinator.log_routing
log_entry(s, to_agent) ==
    [from |-> s.current_agent,
     to |-> IF to_agent = NoAgent THEN "END" ELSE to_agent,
     iteration |-> s.iteration_count,
     has_customer_data |-> HasData(s.customer_data),
     has_tickets |-> HasData(s.tickets_data),
     message_count |-> Len(s.messages)]

\* the routing step without the assignment of completed on fall-through
AfterRouting_NoCompletion(s, next_agent) ==
    IF next_agent = NoAgent THEN s ELSE [s EXCEPT !.current_agent = next_agent]

\* the state after the routing step of execute
AfterRouting(s, next_agent) ==
    IF next_agent = NoAgent
    THEN [s EXCEPT !.status = "completed"]
    ELSE [s EXCEPT !.current_agent = next_agent]

\* the node returned with the run in progress: route to the next agent
RouteNext ==
    /\ pc = "check"
    /\ state.status \notin Terminal
    /\ LET next_agent == route_next(state, routing_functions)
       IN  /\ execution_log' =
                 IF state.current_agent \in DOMAIN routing_functions
                 THEN Append(execution_log, log_entry(state, next_agent))
                 ELSE execution_log
           /\ state' = AfterRouting(state, next_agent)
           /\ pc' = IF next_agent = NoAgent THEN "done" ELSE "loop"
    /\ UNCHANGED <<bus_vars, text_vars>>
    /\ UNCHANGED <<nodes, routing_functions, trace, store, mcp_client, classifier_log>>

Next ==
    \/ EnterIteration
    \/ ExitLoop
    \/ UnknownAgent
    \/ RunRouterNode
    \/ RunDataAgentNode
    \/ RunSupportAgentNode
    \/ RunRouterFinalNode
    \/ RunPassiveStub
    \/ RunFreeStub
    \/ NodeFinished
    \/ RouteNext

Spec == Init /\ [][Next]_vars

(***************************************************************************)
(* Properties of the execution engine.                                     *)
(***************************************************************************)
\* the names of the nodes invoked so far, in order
Ran == [i \in 1..Len(trace) |-> trace[i].node]

\* the graph MultiAgentCoordinator sets up
StandardGraph == nodes = StandardNodes /\ routing_functions = ROUTING_MAP

\* execute has returned
Returned == pc = "done"

\* the text of a response mentions a value
Mentions(response, value) ==
    \E i \in DOMAIN response : value \in Range(response[i].args)

\* the steps execute has left at most: three per iteration still allowed, plus
\* the steps left in the current iteration
StepsLeft ==
    3 * (state.max_iterations - state.iteration_count)
    + (CASE pc = "loop" -> 1
         [] pc = "resolve" -> 3
         [] pc = "check" -> 2
         [] pc = "done" -> 0)

\* C1: for every registration and every ceiling, the count of node invocations and
\* the iteration counter never exceed max_iterations, and execute terminates:
\* until it has returned it can always take a step, and every step lowers
\* StepsLeft, which is never negative.
C1_BoundedRun ==
    /\ [](/\ Len(trace) <= state.max_iterations
          /\ state.iteration_count <= state.max_iterations
          /\ StepsLeft >= 0
          /\ ~Returned => ENABLED Next)
    /\ [][StepsLeft' < StepsLeft]_vars

\* C1 witness: a run that returned after as many invocations as the default
\* ceiling allows.
C1_Witness ==
    /\ Returned
    /\ state.max_iterations = DefaultMaxIterations
    /\ Len(trace) = DefaultMaxIterations

\* C2: no node function is invoked on a state whose status is completed or error.
C2_NoNodeOnTerminalState ==
    \A i \in DOMAIN trace : trace[i].status \notin Terminal

\* C3: once the status is completed or error it never changes again.
C3_StatusMonotone ==
    [][state.status \in Terminal => state'.status = state.status]_vars

\* two passive nodes A and B routed to each other, under the default ceiling
CyclicPassiveRun ==
    /\ nodes = [n \in StubNames |-> "passive_stub"]
    /\ routing_functions = [n \in StubNames |-> IF n = "A" THEN "goto_B" ELSE "goto_A"]
    /\ state.max_iterations = DefaultMaxIterations

\* C4: with max_iterations = 10 and nodes A and B that never set the status and are
\* routed to each other, execute returns with status error and iteration_count 10
\* after exactly 10 invocations; until the 10th iteration the run stays in progress.
C4_CycleEndsAtCeiling ==
    CyclicPassiveRun =>
        /\ state.iteration_count <= DefaultMaxIterations
        /\ state.iteration_count < DefaultMaxIterations => state.status = "in_progress"
        /\ state.iteration_count < DefaultMaxIterations => ~Returned
        /\ Returned =>
              /\ state.status = "error"
              /\ state.iteration_count = DefaultMaxIterations
              /\ Len(trace) = DefaultMaxIterations

\* C4 witness: the cyclic run has returned.
C4_Witness == CyclicPassiveRun /\ Returned /\ Len(trace) = DefaultMaxIterations

\* C5: the state execute returns never has status in_progress.
C5_ReturnsTerminalStatus ==
    Returned => state.status \in Terminal

\* execute is about to resolve a current_agent that is not registered
UnknownAgentMet == pc = "resolve" /\ state.current_agent \notin DOMAIN nodes

\* C6: when current_agent is not registered, execute sets status error and returns
\* in that iteration; no node is invoked, no routing function is consulted and
\* customer_data, tickets_data and messages stay as they were.
C6_UnknownAgentEndsRun ==
    [][UnknownAgentMet =>
          /\ state'.status = "error"
          /\ pc' = "done"
          /\ trace' = trace
          /\ execution_log' = execution_log
          /\ state'.customer_data = state.customer_data
          /\ state'.tickets_data = state.tickets_data
          /\ state'.messages = state.messages]_vars

\* C6 witness: a run that was routed to an unregistered name and ended there,
\* below the ceiling.
C6_Witness ==
    /\ Returned
    /\ state.current_agent \notin DOMAIN nodes
    /\ Len(trace) >= 1
    /\ state.iteration_count < state.max_iterations
    /\ state.status = "error"

\* the router node is about to meet a first required capability that agent_map
\* does not hold
UnmappedCapabilityMet ==
    /\ pc = "resolve"
    /\ MayInvoke(state, nodes)
    /\ nodes[state.current_agent] = "router_node"
    /\ classifier_log' # classifier_log
    /\ classifier_log'[Len(classifier_log')].requires_agents # <<>>
    /\ classifier_log'[Len(classifier_log')].requires_agents[1] \notin DOMAIN agent_map

\* C7: both kinds of routing error, an unmapped capability in the router node and
\* an unregistered current_agent in the engine, leave status error and a
\* non-empty final_response.
C7_RoutingErrorsExplained ==
    [][(UnknownAgentMet \/ UnmappedCapabilityMet) =>
          /\ state'.status = "error"
          /\ state'.final_response # <<>>]_vars

\* a node has returned with the run in progress and routing yields no next node
FallThroughMet ==
    /\ pc = "check"
    /\ state.status = "in_progress"
    /\ \/ state.current_agent \notin DOMAIN routing_functions
       \/ ApplyRouting(routing_functions[state.current_agent], state) = NoAgent

\* C8: when a node returns in progress and there is no routing function for
\* current_agent or it returns None, execute sets status completed and returns;
\* after the return no node runs.
C8_GracefulFallThrough ==
    [][/\ FallThroughMet =>
             /\ state'.status = "completed"
             /\ pc' = "done"
             /\ trace' = trace
       /\ Returned => (pc' = "done" /\ trace' = trace)]_vars

\* C8 witness: a passive node with no routing function ran and the run returned
\* completed.
C8_Witness ==
    /\ Returned
    /\ state.status = "completed"
    /\ Len(trace) >= 1
    /\ state.current_agent \in DOMAIN nodes
    /\ nodes[state.current_agent] = "passive_stub"
    /\ state.current_agent \notin DOMAIN routing_functions

\* the task-allocation scenario: the query "Get customer information for ID 5" on
\* the standard graph under the default ceiling, the classifier requiring only the
\* data capability, the store answering and holding customer 5
TaskAllocationRun ==
    /\ StandardGraph
    /\ state.query = QueryGetInfo
    /\ state.max_iterations = DefaultMaxIterations
    /\ classifier_log = <<[requires_agents |-> <<"Customer Data Agent">>]>>
    /\ store.up
    /\ 5 \in store.customers

\* C9: the task-allocation run executes exactly router, data_agent, router_final,
\* ends completed, and its final_response contains the customer's name.
C9_TaskAllocation ==
    (TaskAllocationRun /\ Returned) =>
        /\ Ran = <<"router", "data_agent", "router_final">>
        /\ state.status = "completed"
        /\ Mentions(state.final_response, CustomerName[5])

\* C9 witness: the task-allocation run has returned.
C9_Witness == TaskAllocationRun /\ Returned /\ Len(trace) = 3

\* the negotiation scenario: the query "I need help with my account, customer ID 1"
\* on the standard graph under the default ceiling, handed by the router to
\* support_agent while customer_data is empty, the store answering and holding
\* customer 1
NegotiationRun ==
    /\ StandardGraph
    /\ state.query = QueryAccountHelp
    /\ state.max_iterations = DefaultMaxIterations
    /\ classifier_log = <<[requires_agents |-> <<"Support Agent">>]>>
    /\ store.up
    /\ 1 \in store.customers

\* C10: the negotiation run executes support_agent, then data_agent, then
\* support_agent again with customer_data present, and only then router_final.
C10_Negotiation ==
    (NegotiationRun /\ Returned) =>
        /\ Ran = <<"router", "support_agent", "data_agent", "support_agent",
                   "router_final">>
        /\ ~trace[2].has_customer_data
        /\ trace[4].has_customer_data

(***************************************************************************)
(* The node functions and route_next called on any state record.  The      *)
(* state is drawn from CallStates; a node function is applied to it once   *)
(* (pc "resolve" to "check"), and route_next is then called on the result, *)
(* or on the drawn state itself, up to MaxRouteCalls times.                *)
(***************************************************************************)
\* the calls of route_next made on one state
MaxRouteCalls == 2

\* the names of the handlers of the standard graph
Handlers == {"router", "data_agent", "support_agent", "router_final"}

\* a final_response an earlier adapter has left
PresetResponse == <<Part("I understand you need help", <<>>, 0),
                    Part("Our team will assist you shortly", <<>>, 0)>>

\* the customer_data values a state record holds: None, a customer, a customer list
CustomerDataChoices ==
    {NoData, Customer(1), [kind |-> "customers", customers |-> Rows({1, 5})]}

\* the tickets_data values a state record holds: None, or a list of one ticket
TicketsDataChoices ==
    {NoData,
     [kind |-> "list",
      items |-> <<[kind |-> "ticket", success |-> TRUE, ticket_id |-> 1]>>]}

\* a state record with the given fields, the message log empty
CallState(q, a, h, cd, td, fr, st) ==
    [NewAgentState(q, a, DefaultMaxIterations) EXCEPT
        !.next_agent = h, !.customer_data = cd, !.tickets_data = td,
        !.final_response = fr, !.status = st, !.iteration_count = 1]

\* the state records a node function or a routing function is called on
CallStates ==
    LET bare == {CallState(q, a, h, cd, td, fr, st) :
                    q \in Queries, a \in Handlers, h \in Handlers \cup {NoAgent},
                    cd \in CustomerDataChoices, td \in TicketsDataChoices,
                    fr \in {<<>>, PresetResponse},
                    st \in {"in_progress"} \cup Terminal}
    IN  bare \cup
        {add_message(s, "router", s.current_agent,
                     Part("Please handle this query", <<>>, 0), EmptyData) :
            s \in bare}

\* a route_next that consumes the next-agent hint it has read
AfterRouteCall_ConsumesHint(s) == [s EXCEPT !.next_agent = NoAgent]

\* route_next leaves the state record as it is
AfterRouteCall(s) == s

\* one call of route_next on the state
RouteCall ==
    /\ pc = "check"
    /\ Len(execution_log) < MaxRouteCalls
    /\ execution_log' =
          Append(execution_log, log_entry(state, route_next(state, routing_functions)))
    /\ state' = AfterRouteCall(state)
    /\ UNCHANGED <<bus_vars, text_vars>>
    /\ UNCHANGED <<pc, nodes, routing_functions, trace, store, mcp_client,
                   classifier_log>>

InitCall ==
    /\ nodes = StandardNodes
    /\ routing_functions = ROUTING_MAP
    /\ state \in CallStates
    /\ \/ /\ pc = "resolve"
          /\ store \in {st \in Stores : st.customers = CustomerIds}
          /\ mcp_client \in Clients
       \/ /\ pc = "check"
          /\ store = [up |-> TRUE, customers |-> CustomerIds, tickets |-> 0,
                      updated |-> {}]
          /\ mcp_client = "None"
    /\ execution_log = <<>>
    /\ trace = <<>>
    /\ classifier_log = <<>>
    /\ NoBus
    /\ NoText

NodeNext ==
    \/ RunRouterNode
    \/ RunDataAgentNode
    \/ RunSupportAgentNode
    \/ RunRouterFinalNode
    \/ RouteCall

NodeSpec == InitCall /\ [][NodeNext]_vars

(***************************************************************************)
(* Properties of the node functions and the routing functions.             *)
(***************************************************************************)
\* the node function f is being called on the state
Calling(f) ==
    /\ pc = "resolve"
    /\ pc' = "check"
    /\ state.current_agent \in DOMAIN nodes
    /\ nodes[state.current_agent] = f

\* C11: data_agent_node never overwrites a follow-up another adapter requested:
\* a next_agent that names another handler on entry has the same value on
\* return, and router_final is set only when no follow-up was requested.
C11_KeepsFollowUp ==
    [][Calling("data_agent_node") =>
          IF state.next_agent \in Handlers \ {"data_agent"}
          THEN state'.next_agent = state.next_agent
          ELSE state'.next_agent = "router_final"]_vars

\* C12: router_final_node leaves a non-empty final_response as it found it,
\* otherwise builds one from customer_data / tickets_data or falls back to the
\* generic acknowledgment; it always returns with status completed and next_agent
\* cleared, and leaves customer_data, tickets_data and messages unchanged.
C12_SynthesisFrame ==
    [][Calling("router_final_node") =>
          /\ state.final_response # <<>> => state'.final_response = state.final_response
          /\ state.final_response = <<>> =>
                /\ state'.final_response # <<>>
                /\ HasData(state.customer_data) =>
                      state'.final_response[1].part = "Customer"
                /\ HasData(state.tickets_data) =>
                      state'.final_response[Len(state'.final_response)].part
                          = "Tickets found"
                /\ (~HasData(state.customer_data) /\ ~HasData(state.tickets_data)) =>
                      state'.final_response =
                          <<Part("Query processed successfully", <<>>, 0)>>
          /\ state'.status = "completed"
          /\ state'.next_agent = NoAgent
          /\ state'.customer_data = state.customer_data
          /\ state'.tickets_data = state.tickets_data
          /\ state'.messages = state.messages]_vars

\* C12 witness: router_final_node has returned a state that came with a response,
\* a follow-up hint and customer data, the response kept and the hint cleared.
C12_Witness ==
    /\ pc = "check"
    /\ Ran = <<"router_final">>
    /\ execution_log = <<>>
    /\ state.final_response = PresetResponse
    /\ HasData(state.customer_data)
    /\ state.messages # <<>>
    /\ state.status = "completed"
    /\ state.next_agent = NoAgent

(***************************************************************************)
(* Properties of whole runs.                                               *)
(***************************************************************************)
\* C13: the message log is append-only: across every step of a run, node
\* executions and engine steps alike, state.messages only grows at its end and
\* the entries already in it stay as they were, in their order.
C13_AppendOnlyLog ==
    [][/\ Len(state'.messages) >= Len(state.messages)
       /\ SubSeq(state'.messages, 1, Len(state.messages)) = state.messages]_vars

\* C13 witness: a run has returned with three messages in the log, written by
\* three different nodes.
C13_Witness ==
    /\ Returned
    /\ Len(state.messages) = 3
    /\ state.messages[1].from = "router"
    /\ state.messages[2].from = "support_agent"
    /\ state.messages[3].from = "data_agent"

\* the clarification request of router_node
ClarificationRequest == <<Part("I'm not sure I understand", <<>>, 0)>>

\* the classifier returned an empty list of required capabilities to the router
\* node of the standard graph
EmptyCapabilitiesRun ==
    /\ StandardGraph
    /\ classifier_log # <<>>
    /\ classifier_log[1].requires_agents = <<>>

\* C14: when the classifier returns no required capability, the router node sets
\* final_response to the clarification request and status completed and appends
\* no message, and the run ends after that one node execution: neither a
\* specialist nor the synthesis node runs.
C14_ClarificationEndsRun ==
    EmptyCapabilitiesRun =>
        /\ state.final_response = ClarificationRequest
        /\ state.status = "completed"
        /\ state.messages = <<>>
        /\ Ran = <<"router">>
        /\ pc \in {"check", "done"}
        /\ execution_log = <<>>

\* C14 witness: such a run has returned, below the ceiling.
C14_Witness ==
    /\ EmptyCapabilitiesRun
    /\ Returned
    /\ state.iteration_count = 1
    /\ state.max_iterations = DefaultMaxIterations

(***************************************************************************)
(* Properties of the routing functions.                                    *)
(***************************************************************************)
\* route_next is being called on the state
RouteCalled == pc = "check" /\ Len(execution_log') = Len(execution_log) + 1

\* the next hop the i-th call of route_next returned
Hop(i) == IF execution_log[i].to = "END" THEN NoAgent ELSE execution_log[i].to

\* the next hop the latest call of route_next returned
LastHop == Hop(Len(execution_log))

\* C15: on a state whose status is completed or error every routing function of
\* ROUTING_MAP returns None, and route_next, called any number of times, returns
\* None and leaves the state record unchanged.
C15_FinalStatesIdempotent ==
    /\ [](state.status \in Terminal =>
             \A n \in DOMAIN ROUTING_MAP : ApplyRouting(ROUTING_MAP[n], state) = NoAgent)
    /\ [][(RouteCalled /\ state.status \in Terminal) =>
             /\ state' = state
             /\ LastHop' = NoAgent]_vars

\* C15 witness: route_next has been called MaxRouteCalls times on a terminal state
\* that carries a next-agent hint.
C15_Witness ==
    /\ Len(execution_log) = MaxRouteCalls
    /\ state.status \in Terminal
    /\ state.next_agent \in Handlers
    /\ \A i \in DOMAIN execution_log : Hop(i) = NoAgent

C17_HintHonoured ==
    [][(/\ RouteCalled
        /\ state.status = "in_progress"
        /\ state.current_agent \in {"router", "data_agent", "support_agent"}) =>
          LastHop' = IF state.next_agent \in Handlers THEN state.next_agent
                     ELSE IF state.current_agent = "router" THEN NoAgent
                     ELSE "router_final"]_vars

(***************************************************************************)
(* Properties of runs in which a collaborator fails.                       *)
(***************************************************************************)
\* the answer of the record-store operation CustomerDataAgent.process invokes for
\* a query: whether one is invoked, whether it succeeded, and its error text
StoreAnswer(facts, st) ==
    LET answer(r) == [called |-> TRUE, success |-> r.success, error |-> r.error]
    IN  IF facts.operation = "retrieve" /\ facts.customer_id # <<>>
        THEN answer(get_customer(st, ToInt(facts.customer_id)))
        ELSE IF facts.operation = "list"
        THEN answer(list_customers(st, IF facts.active THEN "active" ELSE "None"))
        ELSE IF facts.operation = "update" /\ facts.customer_id # <<>> /\ facts.has_email
        THEN answer(update_customer(st, ToInt(facts.customer_id)))
        ELSE [called |-> FALSE, success |-> TRUE, error |-> ""]

\* data_agent_node is being called and its record-store operation reports failure
StoreFailing ==
    /\ Calling("data_agent_node")
    /\ StoreAnswer(QueryFacts[state.query], store).called
    /\ ~StoreAnswer(QueryFacts[state.query], store).success

\* the data-retrieval collaborator failed during the run: data_agent_node logged
\* a result that was not a success
DataFailed ==
    \E i \in DOMAIN state.messages :
        /\ state.messages[i].from = "data_agent"
        /\ ~state.messages[i].data.success

\* a run of the standard graph under the default ceiling
StandardRun == StandardGraph /\ state.max_iterations = DefaultMaxIterations

\* the text of a message says what the record store answered
CarriesError(content, error) == content.part = error \/ error \in Range(content.args)

\* C18: when the record-store operation data_agent_node invokes reports failure,
\* the node leaves customer_data unset and appends one message carrying the
\* failure text, and the run still returns with status completed, not error.
C18_StoreFailureTolerated ==
    /\ [][(StandardRun /\ StoreFailing) =>
             /\ state'.customer_data = NoData
             /\ Len(state'.messages) = Len(state.messages) + 1
             /\ LET m == state'.messages[Len(state'.messages)]
                IN  /\ m.from = "data_agent"
                    /\ ~m.data.success
                    /\ CarriesError(m.content,
                                    StoreAnswer(QueryFacts[state.query], store).error)
             /\ state'.status = "in_progress"]_vars
    /\ []((StandardRun /\ Returned /\ DataFailed) => state.status = "completed")

\* C18 witness: a run has returned after data_agent_node met a record store that
\* was down.
C18_Witness ==
    /\ StandardRun
    /\ Returned
    /\ DataFailed
    /\ ~store.up
    /\ "data_agent" \in Range(Ran)
    /\ state.customer_data = NoData
    /\ state.status = "completed"

\* the plain success acknowledgment of router_final_node
SuccessAcknowledgment == <<Part("Query processed successfully", <<>>, 0)>>

\* C19: a collaborator failure is surfaced to the caller: whenever the
\* data-retrieval collaborator failed during a run, the final_response the run
\* returns reports the failure and is never the plain success acknowledgment.
C19_FailureSurfaced ==
    (StandardRun /\ Returned /\ DataFailed) =>
        /\ state.final_response # SuccessAcknowledgment
        /\ \E i \in DOMAIN state.messages :
              /\ state.messages[i].from = "data_agent"
              /\ ~state.messages[i].data.success
              /\ state.messages[i].content \in Range(state.final_response)

(***************************************************************************)
(* Runs in which a collaborator behaves badly.  The classifier may return  *)
(* valid JSON without the key requires_agents, and the connection to the   *)
(* record store may fail when CustomerDataAgent.process first opens it.    *)
(* A failing ticket call is part of support_agent_node already.            *)
(***************************************************************************)
\* an intent analysis without the key requires_agents
MalformedIntent == [malformed |-> TRUE]

\* router_node reads intent['requires_agents'] of a malformed analysis: the
\* KeyError is caught neither by router_node nor by execute
RouterNodeRaises ==
    /\ pc = "resolve"
    /\ MayInvoke(state, nodes)
    /\ nodes[state.current_agent] = "router_node"
    /\ trace' = Append(trace, Invocation(state))
    /\ classifier_log' = Append(classifier_log, MalformedIntent)
    /\ pc' = "raised"
    /\ UNCHANGED <<bus_vars, text_vars>>
    /\ UNCHANGED <<state, nodes, routing_functions, execution_log, store, mcp_client>>

\* data_agent.process raises while it opens the record store (MCPServer._connect
\* re-raises): the exception is caught neither by data_agent_node nor by execute
DataAgentNodeRaises ==
    /\ pc = "resolve"
    /\ MayInvoke(state, nodes)
    /\ nodes[state.current_agent] = "data_agent_node"
    /\ trace' = Append(trace, Invocation(state))
    /\ pc' = "raised"
    /\ UNCHANGED <<bus_vars, text_vars>>
    /\ UNCHANGED <<state, nodes, routing_functions, execution_log, store, mcp_client,
                   classifier_log>>

FaultNext ==
    \/ Next
    \/ RouterNodeRaises
    \/ DataAgentNodeRaises

FaultSpec == Init /\ [][FaultNext]_vars

\* an exception has left execute
Escaped == pc = "raised"

\* C20: no fault escapes execute: whatever the classifier, the record store and
\* the ticketing call do, execute returns a state and never propagates an
\* exception to its caller.
C20_NoFaultEscapes == ~Escaped

(***************************************************************************)
(* The message bus: per-recipient queues, a global history and a counter   *)
(* that numbers the messages.                                              *)
(***************************************************************************)
\* the bus interface is exercised for up to MaxMessages sends
MaxMessages == 3

RouterName == "Router Agent"
DataName == "Customer Data Agent"
SupportName == "Support Agent"
AgentNames == {RouterName, DataName, SupportName}

\* the Message dataclass; the timestamp is left out, time is not modelled
Message(id, from_agent, to_agent, content, data) ==
    [id |-> id, from_agent |-> from_agent, to_agent |-> to_agent,
     content |-> content, data |-> data]

\* the payload of no message, and receive_message's None
NoPayload == [kind |-> "none", query |-> 0, by |-> ""]
NoMessage == Message(0, "", "", "", NoPayload)

\* the payload of the request number n
Request(n) == [kind |-> "request", query |-> n, by |-> ""]

register_agent(inb, agent_name) ==
    IF agent_name \in DOMAIN inb THEN inb ELSE inb @@ (agent_name :> <<>>)

\* the recipient check that opens send_message
send_rejects(inb, to_agent) == to_agent \notin DOMAIN inb

\* Queue.put on the recipient's inbox
put(inb, to_agent, message) == [inb EXCEPT ![to_agent] = Append(@, message)]

\* Queue.get on a non-empty inbox
get(inb, agent_name) == [inb EXCEPT ![agent_name] = Tail(@)]

has_messages(inb, agent_name) == inb[agent_name] # <<>>

\* the graph engine is not part of a run of the bus
NoEngine ==
    /\ state = NewAgentState(QueryGetInfo, "router", 0)
    /\ nodes = StandardNodes
    /\ routing_functions = ROUTING_MAP
    /\ execution_log = <<>>
    /\ pc = "idle"
    /\ trace = <<>>
    /\ store = [up |-> TRUE, customers |-> CustomerIds, tickets |-> 0, updated |-> {}]
    /\ mcp_client = "None"
    /\ classifier_log = <<>>

\* MessageBus.__init__
NewBus ==
    /\ inboxes = <<>>
    /\ message_history = <<>>
    /\ message_counter = 0
    /\ received = <<>>
    /\ outcome = [op |-> "init", raised |-> "none", returned |-> "none"]

InitBus ==
    /\ NoEngine
    /\ NoText
    /\ NewBus
    /\ running = FALSE
    /\ router = [pc |-> "absent"]
    /\ pumps = <<>>

Senders == {RouterName, DataName}

RegisterAgent ==
    \E agent_name \in AgentNames :
        /\ inboxes' = register_agent(inboxes, agent_name)
        /\ received' = register_agent(received, agent_name)
        /\ outcome' = [op |-> "register_agent", raised |-> "none", returned |-> "none"]
        /\ UNCHANGED <<message_history, message_counter>>
    /\ UNCHANGED <<engine_vars, running, router, pumps, text_vars>>

\* the whole of send_message, by a caller nothing runs beside
send_message_PartialOnFailure(from_agent, to_agent, content, data) ==
    LET counter == message_counter + 1
        message == Message(counter, from_agent, to_agent, content, data)
    IN  IF send_rejects(inboxes, to_agent)
        THEN /\ outcome' = [op |-> "send_message", raised |-> "ValueError",
                            returned |-> "none"]
             /\ message_counter' = counter
             /\ message_history' = Append(message_history, message)
             /\ UNCHANGED inboxes
        ELSE /\ message_counter' = counter
             /\ inboxes' = put(inboxes, to_agent, message)
             /\ message_history' = Append(message_history, message)
             /\ outcome' = [op |-> "send_message", raised |-> "none",
                            returned |-> "id", value |-> message.id]

send_message(from_agent, to_agent, content, data) ==
    LET counter == message_counter + 1
        message == Message(counter, from_agent, to_agent, content, data)
    IN  IF send_rejects(inboxes, to_agent)
        THEN /\ outcome' = [op |-> "send_message", raised |-> "ValueError",
                            returned |-> "none"]
             /\ UNCHANGED <<inboxes, message_history, message_counter>>
        ELSE /\ message_counter' = counter
             /\ inboxes' = put(inboxes, to_agent, message)
             /\ message_history' = Append(message_history, message)
             /\ outcome' = [op |-> "send_message", raised |-> "none",
                            returned |-> "id", value |-> message.id]

SendMessage ==
    /\ message_counter < MaxMessages
    /\ \E from_agent \in Senders, to_agent \in AgentNames :
          send_message(from_agent, to_agent, "content", Request(message_counter + 1))
    /\ UNCHANGED received
    /\ UNCHANGED <<engine_vars, running, router, pumps, text_vars>>

\* receive_message at the moment its Queue.get returns a message or gives up:
\* what it raises or returns, and the inboxes it leaves
receive_message(inb, agent_name) ==
    IF agent_name \notin DOMAIN inb
    THEN [raised |-> "ValueError", returned |-> "none", value |-> NoMessage,
          inboxes |-> inb]
    ELSE IF has_messages(inb, agent_name)
         THEN [raised |-> "none", returned |-> "message",
               value |-> Head(inb[agent_name]), inboxes |-> get(inb, agent_name)]
         ELSE [raised |-> "none", returned |-> "None", value |-> NoMessage,
               inboxes |-> inb]

\* the record of what receive_message returned to agent_name
Received(rcv, agent_name, response) ==
    IF response.returned = "message"
    THEN [rcv EXCEPT ![agent_name] = Append(@, response.value)]
    ELSE rcv

ReceiveMessage_ConsumesHistory ==
    /\ \E agent_name \in AgentNames :
          LET r == receive_message(inboxes, agent_name)
          IN  /\ inboxes' = r.inboxes
              /\ received' = Received(received, agent_name, r)
              /\ outcome' = [op |-> "receive_message", raised |-> r.raised,
                             returned |-> r.returned, value |-> r.value]
              /\ message_history' = SelectSeq(message_history,
                                              LAMBDA m : m # r.value)
    /\ UNCHANGED message_counter
    /\ UNCHANGED <<engine_vars, running, router, pumps, text_vars>>

ReceiveMessage ==
    /\ \E agent_name \in AgentNames :
          LET r == receive_message(inboxes, agent_name)
          IN  /\ inboxes' = r.inboxes
              /\ received' = Received(received, agent_name, r)
              /\ outcome' = [op |-> "receive_message", raised |-> r.raised,
                             returned |-> r.returned, value |-> r.value]
    /\ UNCHANGED <<message_history, message_counter>>
    /\ UNCHANGED <<engine_vars, running, router, pumps, text_vars>>

HasMessages ==
    /\ \E agent_name \in AgentNames :
          outcome' = IF agent_name \in DOMAIN inboxes
                     THEN [op |-> "has_messages", raised |-> "none", returned |-> "bool",
                           value |-> has_messages(inboxes, agent_name)]
                     ELSE [op |-> "has_messages", raised |-> "KeyError",
                           returned |-> "none"]
    /\ UNCHANGED <<inboxes, message_history, message_counter, received>>
    /\ UNCHANGED <<engine_vars, running, router, pumps, text_vars>>

GetMessageHistory ==
    /\ outcome' = [op |-> "get_message_history", raised |-> "none",
                   returned |-> "history", value |-> message_history]
    /\ UNCHANGED <<inboxes, message_history, message_counter, received>>
    /\ UNCHANGED <<engine_vars, running, router, pumps, text_vars>>

BusNext ==
    \/ RegisterAgent
    \/ SendMessage
    \/ ReceiveMessage
    \/ HasMessages
    \/ GetMessageHistory

BusSpec == InitBus /\ [][BusNext]_vars

(***************************************************************************)
(* Properties of the MessageBus interface.                                 *)
(***************************************************************************)
\* the step is a call of send_message
SendCalled == outcome'.op = "send_message" /\ vars' # vars

\* C21: a send_message to a recipient that is not registered raises and
\* changes nothing: the history, the inboxes and the message counter stay as
\* they were; a send that returns was to a registered recipient.
C21_RejectedSendChangesNothing ==
    [][SendCalled =>
          \/ /\ outcome'.raised = "ValueError"
             /\ UNCHANGED <<inboxes, message_history, message_counter>>
          \/ /\ outcome'.raised = "none"
             /\ message_history' # <<>>
             /\ message_history'[Len(message_history')].to_agent \in DOMAIN inboxes]_vars

C21_Witness ==
    /\ outcome.op = "send_message"
    /\ outcome.raised = "ValueError"
    /\ message_history # <<>>
    /\ \E n \in DOMAIN inboxes : inboxes[n] # <<>>

\* the messages of the history addressed to one agent, in history order
HistoryOf(agent_name) ==
    SelectSeq(message_history, LAMBDA m : m.to_agent = agent_name)

\* C23: the history is append-only and survives consumption: it holds exactly
\* the messages of the sends that returned, in send order, whether they are
\* still queued or were received; only a send that returns changes it, by
\* appending its message.
C23_HistorySurvivesConsumption ==
    /\ [](/\ Len(message_history) = message_counter
          /\ \A i \in DOMAIN message_history : message_history[i].id = i
          /\ \A n \in DOMAIN inboxes : received[n] \o inboxes[n] = HistoryOf(n))
    /\ [][\/ message_history' = message_history
          \/ /\ SendCalled
             /\ outcome'.raised = "none"
             /\ \E m \in Range(inboxes'[message_history'[Len(message_history')].to_agent]) :
                   /\ m.id = outcome'.value
                   /\ message_history' = Append(message_history, m)]_vars
    /\ [][SendCalled /\ outcome'.raised = "none"
             => Len(message_history') = Len(message_history) + 1]_vars

C23_Witness ==
    /\ outcome.op = "receive_message"
    /\ outcome.returned = "message"
    /\ \E n \in DOMAIN inboxes : received[n] # <<>> /\ inboxes[n] # <<>>
    /\ Len(message_history) = MaxMessages

(***************************************************************************)
(* The bus variant: A2ACoordinator.process_query runs the router on the    *)
(* calling thread and a message pump on a thread of its own; the threads   *)
(* interleave at every access to the bus.                                  *)
(***************************************************************************)
\* the router makes up to MaxRequests requests to specialists, over all the
\* calls of process_query made on one coordinator
MaxRequests == 2

\* the agents the pump polls, in its order
Specialists == <<DataName, SupportName>>

\* RouterAgent.specialist_agents as A2ACoordinator.__init__ fills it
specialist_agents == {DataName, SupportName}

NoSend == [to_agent |-> "", content |-> "", data |-> NoPayload, counter |-> 0, id |-> 0]

\* the payload of a specialist's result for a request
ResultOf(message, agent_name) ==
    [kind |-> "result", query |-> message.data.query, by |-> agent_name]

Bus ==
    [inboxes |-> inboxes, message_history |-> message_history,
     message_counter |-> message_counter]

SendPcs == {"send", "send_store", "send_id", "send_put", "send_append"}

\* BaseAgent.send_message: the agent sends under its own name
agent_send(t, to_agent, content, data) ==
    [t EXCEPT !.pc = "send",
              !.snd = [to_agent |-> to_agent, content |-> content, data |-> data,
                       counter |-> 0, id |-> 0]]

\* one step of MessageBus.send_message made by the thread with locals t for
\* the agent from_agent; ret is where the thread continues after the call
send_step(t, from_agent, ret, bus) ==
    CASE t.pc = "send" ->
            IF send_rejects(bus.inboxes, t.snd.to_agent)
            THEN [t |-> [t EXCEPT !.pc = "raised", !.snd = NoSend], bus |-> bus]
            ELSE [t |-> [t EXCEPT !.pc = "send_store",
                                  !.snd.counter = bus.message_counter],
                  bus |-> bus]
      [] t.pc = "send_store" ->
            [t |-> [t EXCEPT !.pc = "send_id"],
             bus |-> [bus EXCEPT !.message_counter = t.snd.counter + 1]]
      [] t.pc = "send_id" ->
            [t |-> [t EXCEPT !.pc = "send_put", !.snd.id = bus.message_counter],
             bus |-> bus]
      [] t.pc = "send_put" ->
            [t |-> [t EXCEPT !.pc = "send_append"],
             bus |-> [bus EXCEPT !.inboxes =
                         put(@, t.snd.to_agent,
                             Message(t.snd.id, from_agent, t.snd.to_agent,
                                     t.snd.content, t.snd.data))]]
      [] t.pc = "send_append" ->
            [t |-> [t EXCEPT !.pc = ret, !.snd = NoSend],
             bus |-> [bus EXCEPT !.message_history =
                         Append(@, Message(t.snd.id, from_agent, t.snd.to_agent,
                                           t.snd.content, t.snd.data))]]

\* the names RouterAgent.process hands to route_to_specialist
Callees == {DataName, SupportName}

NoResponse == [kind |-> "No response from specialist", query |-> 0, by |-> ""]
UnknownSpecialist == [kind |-> "Unknown specialist agent", query |-> 0, by |-> ""]

NewPump == [pc |-> "while", i |-> 1, msg |-> NoMessage, snd |-> NoSend]

\* A2ACoordinator.__init__
InitA2A ==
    /\ NoEngine
    /\ NoText
    /\ inboxes = [n \in AgentNames |-> <<>>]
    /\ message_history = <<>>
    /\ message_counter = 0
    /\ received = [n \in AgentNames |-> <<>>]
    /\ outcome = [op |-> "init", raised |-> "none", returned |-> "none"]
    /\ running = FALSE
    /\ router = [pc |-> "idle", asked |-> 0, specialist |-> "", req |-> 0,
                 snd |-> NoSend, results |-> <<>>]
    /\ pumps = <<>>

\* process_query up to the call of router.process
ProcessQuery ==
    /\ router.pc = "idle"
    /\ router.req < MaxRequests
    /\ running' = TRUE
    /\ pumps' = Append(pumps, NewPump)
    /\ router' = [router EXCEPT !.pc = "route", !.asked = 0]
    /\ UNCHANGED <<inboxes, message_history, message_counter, received, outcome>>
    /\ UNCHANGED <<engine_vars, text_vars>>

\* route_to_specialist up to the send
route_to_specialist(t, agent_name) ==
    IF agent_name \notin specialist_agents
    THEN [t EXCEPT !.asked = @ + 1,
                   !.results = Append(@, [req |-> 0, specialist |-> agent_name,
                                          result |-> UnknownSpecialist])]
    ELSE agent_send([t EXCEPT !.asked = @ + 1, !.req = @ + 1,
                              !.specialist = agent_name],
                    agent_name, "Please process", Request(t.req + 1))

\* router.process asks one more specialist
Route ==
    /\ router.pc = "route"
    /\ router.req < MaxRequests
    /\ \E agent_name \in Callees : router' = route_to_specialist(router, agent_name)
    /\ UNCHANGED <<inboxes, message_history, message_counter, received, outcome,
                   running, pumps>>
    /\ UNCHANGED <<engine_vars, text_vars>>

\* router.process returns
Processed ==
    /\ router.pc = "route"
    /\ router.asked > 0
    /\ router' = [router EXCEPT !.pc = "finally"]
    /\ UNCHANGED <<inboxes, message_history, message_counter, received, outcome,
                   running, pumps>>
    /\ UNCHANGED <<engine_vars, text_vars>>

RouterSend ==
    /\ router.pc \in SendPcs
    /\ LET r == send_step(router, RouterName, "receive", Bus)
       IN  /\ router' = r.t
           /\ inboxes' = r.bus.inboxes
           /\ message_history' = r.bus.message_history
           /\ message_counter' = r.bus.message_counter
    /\ UNCHANGED <<received, outcome, running, pumps>>
    /\ UNCHANGED <<engine_vars, text_vars>>

\* BaseAgent.receive_message: the agent receives from its own inbox
agent_receive(inb, agent_name) == receive_message(inb, agent_name)

\* what route_to_specialist returns for what receive_message returned
route_result_RaisesOnTimeout(response) ==
    IF response.returned = "message" THEN response.value.data
    ELSE [kind |-> "raised", query |-> 0, by |-> ""]

route_result(response) ==
    IF response.returned = "message" THEN response.value.data ELSE NoResponse

\* the rest of route_to_specialist
RouterReceive ==
    /\ router.pc = "receive"
    /\ LET response == agent_receive(inboxes, RouterName)
       IN  /\ inboxes' = response.inboxes
           /\ router' = [router EXCEPT
                            !.pc = IF response.raised = "none" THEN "route" ELSE "raised",
                            !.results = Append(@, [req |-> router.req,
                                                   specialist |-> router.specialist,
                                                   result |-> route_result(response)])]
           /\ received' = Received(received, RouterName, response)
    /\ UNCHANGED <<message_history, message_counter, outcome, running, pumps>>
    /\ UNCHANGED <<engine_vars, text_vars>>

\* the finally clause of process_query
Finally ==
    /\ router.pc = "finally"
    /\ running' = FALSE
    /\ router' = [router EXCEPT !.pc = "join"]
    /\ UNCHANGED <<inboxes, message_history, message_counter, received, outcome, pumps>>
    /\ UNCHANGED <<engine_vars, text_vars>>

\* pump_thread.join returns because the pump has ended
JoinReturns ==
    /\ router.pc = "join"
    /\ pumps[Len(pumps)].pc = "stopped"
    /\ router' = [router EXCEPT !.pc = "idle"]
    /\ UNCHANGED <<inboxes, message_history, message_counter, received, outcome,
                   running, pumps>>
    /\ UNCHANGED <<engine_vars, text_vars>>

\* pump_thread.join(timeout=1.0) gives up: the pump is inside a handler that
\* takes longer than the timeout
JoinTimesOut ==
    /\ router.pc = "join"
    /\ pumps[Len(pumps)].pc = "process"
    /\ router' = [router EXCEPT !.pc = "idle"]
    /\ UNCHANGED <<inboxes, message_history, message_counter, received, outcome,
                   running, pumps>>
    /\ UNCHANGED <<engine_vars, text_vars>>

\* the pump goes on to the next agent of its round; after the last one it
\* sleeps and tests running again
NextAgent(t) ==
    IF t.i < Len(Specialists)
    THEN [t EXCEPT !.pc = "poll", !.i = @ + 1]
    ELSE [t EXCEPT !.pc = "while", !.i = 1]

\* the test of the pump's while loop
PumpLoop(k) ==
    /\ pumps[k].pc = "while"
    /\ pumps' = [pumps EXCEPT ![k].pc = IF running THEN "poll" ELSE "stopped",
                              ![k].i = 1]
    /\ UNCHANGED <<inboxes, message_history, message_counter, received, outcome,
                   running, router>>
    /\ UNCHANGED <<engine_vars, text_vars>>

\* the has_messages test for the next agent, or the sleep that ends the round
PumpPoll(k) ==
    /\ pumps[k].pc = "poll"
    /\ pumps' =
          IF has_messages(inboxes, Specialists[pumps[k].i])
          THEN [pumps EXCEPT ![k].pc = "receive"]
          ELSE [pumps EXCEPT ![k] = NextAgent(@)]
    /\ UNCHANGED <<inboxes, message_history, message_counter, received, outcome,
                   running, router>>
    /\ UNCHANGED <<engine_vars, text_vars>>

PumpReceive(k) ==
    /\ pumps[k].pc = "receive"
    /\ LET response == receive_message(inboxes, Specialists[pumps[k].i])
       IN  /\ inboxes' = response.inboxes
           /\ pumps' =
                 IF response.raised # "none"
                 THEN [pumps EXCEPT ![k].pc = "raised"]
                 ELSE IF response.returned = "message"
                      THEN [pumps EXCEPT ![k].pc = "process", ![k].msg = response.value]
                      ELSE [pumps EXCEPT ![k] = NextAgent(@)]
           /\ received' = Received(received, Specialists[pumps[k].i], response)
    /\ UNCHANGED <<message_history, message_counter, outcome, running, router>>
    /\ UNCHANGED <<engine_vars, text_vars>>

\* a process_message that processes the query and sends no reply
process_message_Silent(t, agent_name) ==
    NextAgent([t EXCEPT !.msg = NoMessage])

\* process_message up to its send: the agent has processed the query
process_message(t, agent_name) ==
    agent_send(t, t.msg.from_agent, "Query processed", ResultOf(t.msg, agent_name))

PumpProcess(k) ==
    /\ pumps[k].pc = "process"
    /\ pumps' = [pumps EXCEPT ![k] = process_message(@, Specialists[pumps[k].i])]
    /\ UNCHANGED <<inboxes, message_history, message_counter, received, outcome,
                   running, router>>
    /\ UNCHANGED <<engine_vars, text_vars>>

PumpSend(k) ==
    /\ pumps[k].pc \in SendPcs
    /\ LET r == send_step(pumps[k], Specialists[pumps[k].i], "replied", Bus)
       IN  /\ pumps' = [pumps EXCEPT
                           ![k] = IF r.t.pc = "replied"
                                  THEN NextAgent([r.t EXCEPT !.msg = NoMessage])
                                  ELSE r.t]
           /\ inboxes' = r.bus.inboxes
           /\ message_history' = r.bus.message_history
           /\ message_counter' = r.bus.message_counter
    /\ UNCHANGED <<received, outcome, running, router>>
    /\ UNCHANGED <<engine_vars, text_vars>>

A2ANext ==
    \/ ProcessQuery
    \/ Route
    \/ Processed
    \/ RouterSend
    \/ RouterReceive
    \/ Finally
    \/ JoinReturns
    \/ JoinTimesOut
    \/ \E k \in DOMAIN pumps : PumpLoop(k)
    \/ \E k \in DOMAIN pumps : PumpPoll(k)
    \/ \E k \in DOMAIN pumps : PumpReceive(k)
    \/ \E k \in DOMAIN pumps : PumpProcess(k)
    \/ \E k \in DOMAIN pumps : PumpSend(k)

A2ASpec == InitA2A /\ [][A2ANext]_vars

(***************************************************************************)
(* Properties of the bus variant.                                          *)
(***************************************************************************)
\* the step is the return of the receive_message call in route_to_specialist
RouterReceived == router.pc = "receive" /\ router'.pc # "receive"

\* the step is the return of the pump k's receive_message call
PumpReceived(k) ==
    k \in DOMAIN pumps /\ pumps[k].pc = "receive" /\ pumps'[k].pc # "receive"

\* what the last route_to_specialist call returned
LastResult == router.results[Len(router.results)]

\* C24: a receive_message whose inbox stayed empty returns None and leaves
\* the history and the inboxes as they are; route_to_specialist turns the
\* None into the "No response from specialist" result and does not raise.
C24_TimeoutIsAValue ==
    /\ [][RouterReceived /\ inboxes[RouterName] = <<>>
             => /\ router'.pc = "route"
                /\ Len(router'.results) = Len(router.results) + 1
                /\ LastResult'.result = NoResponse
                /\ UNCHANGED <<inboxes, message_history>>]_vars
    /\ [][\A k \in DOMAIN pumps :
             PumpReceived(k) /\ inboxes[Specialists[pumps[k].i]] = <<>>
                => /\ pumps'[k].pc \in {"poll", "while"}
                   /\ UNCHANGED <<inboxes, message_history>>]_vars

C24_Witness ==
    /\ router.results # <<>>
    /\ LastResult.result = NoResponse
    /\ router.pc = "route"
    /\ message_history # <<>>
    /\ \E k \in DOMAIN pumps : pumps[k].pc = "process"

\* the pump threads that have not ended
LivePumps == {k \in DOMAIN pumps : pumps[k].pc # "stopped"}

\* C25: at most one message pump is alive at any moment, so each specialist
\* inbox has one consumer: the pump of one process_query call has stopped
\* before the pump of the next call runs.
C25_OnePumpAtATime == Cardinality(LivePumps) <= 1

\* C26: every reply that route_to_specialist(X, q) returns was sent by X in
\* answer to that very request; a reply to an earlier request is never
\* returned for a later one.
C26_ReplyPairedWithRequest ==
    \A j \in DOMAIN router.results :
        LET r == router.results[j]
        IN  r.result.kind = "result"
               => r.result.by = r.specialist /\ r.result.query = r.req

\* the messages delivered to an inbox, received or still queued, in the
\* order of delivery
Delivered(agent_name) == received[agent_name] \o inboxes[agent_name]

\* C22: the messages of an inbox are received in the relative order in which
\* they appear in the history, also when threads send concurrently.
C22_InboxFollowsHistory ==
    \A n \in DOMAIN inboxes :
        SelectSeq(Delivered(n), LAMBDA m : m \in Range(message_history)) = HistoryOf(n)

(***************************************************************************)
(* The text functions of the agents, applied to queries put together from  *)
(* a vocabulary. A word carries, next to its characters, what it is in the *)
(* query for: the operation verb it is, the ID pattern it is an instance   *)
(* of with its number, and the priority tier of the keyword it is.         *)
(***************************************************************************)
\* a query has up to MaxWords words
MaxWords == 2

\* analyze_intent is run up to MaxRuns times on one query
MaxRuns == 2

\* "get"
WordGet ==
    [chars |-> <<"g","e","t">>,
     verb |-> "retrieve", pattern |-> 0, number |-> <<>>, tier |-> "low"]

\* "update"
WordUpdate ==
    [chars |-> <<"u","p","d","a","t","e">>,
     verb |-> "update", pattern |-> 0, number |-> <<>>, tier |-> "low"]

\* "list"
WordList ==
    [chars |-> <<"l","i","s","t">>,
     verb |-> "list", pattern |-> 0, number |-> <<>>, tier |-> "low"]

\* "all"
WordAll ==
    [chars |-> <<"a","l","l">>,
     verb |-> "list", pattern |-> 0, number |-> <<>>, tier |-> "low"]

\* "id 3"
WordId ==
    [chars |-> <<"i","d"," ","3">>,
     verb |-> "none", pattern |-> 1, number |-> <<"3">>, tier |-> "low"]

\* "customer 42"
WordCustomer ==
    [chars |-> <<"c","u","s","t","o","m","e","r"," ","4","2">>,
     verb |-> "none", pattern |-> 2, number |-> <<"4","2">>, tier |-> "low"]

\* "#7"
WordHash ==
    [chars |-> <<"#","7">>,
     verb |-> "none", pattern |-> 3, number |-> <<"7">>, tier |-> "low"]

\* "urgent"
WordUrgent ==
    [chars |-> <<"u","r","g","e","n","t">>,
     verb |-> "none", pattern |-> 0, number |-> <<>>, tier |-> "high"]

\* "upgrade"
WordUpgrade ==
    [chars |-> <<"u","p","g","r","a","d","e">>,
     verb |-> "none", pattern |-> 0, number |-> <<>>, tier |-> "medium"]

\* "refund"
WordRefund ==
    [chars |-> <<"r","e","f","u","n","d">>,
     verb |-> "none", pattern |-> 0, number |-> <<>>, tier |-> "high"]

\* "please"
WordPlease ==
    [chars |-> <<"p","l","e","a","s","e">>,
     verb |-> "none", pattern |-> 0, number |-> <<>>, tier |-> "low"]

Words == {WordGet, WordUpdate, WordList, WordAll, WordId, WordCustomer,
          WordHash, WordUrgent, WordUpgrade, WordRefund, WordPlease}

\* "please refund, customer 42, ticket #7"
ExampleRefund ==
    <<[chars |-> <<"p","l","e","a","s","e"," ","r","e","f","u","n","d",",">>,
       verb |-> "none", pattern |-> 0, number |-> <<>>, tier |-> "high"],
      [chars |-> <<"c","u","s","t","o","m","e","r"," ","4","2",",">>,
       verb |-> "none", pattern |-> 2, number |-> <<"4","2">>, tier |-> "low"],
      [chars |-> <<"t","i","c","k","e","t"," ","#","7">>,
       verb |-> "none", pattern |-> 3, number |-> <<"7">>, tier |-> "low"]>>

TextQueries ==
    UNION {[1..k -> Words] : k \in 1..MaxWords} \cup {ExampleRefund}

\* the characters of a query: its words with one space between them
RECURSIVE Join(_)
Join(ws) ==
    IF Len(ws) = 0 THEN <<>>
    ELSE IF Len(ws) = 1 THEN ws[1].chars
    ELSE ws[1].chars \o <<" ">> \o Join(Tail(ws))

\* RouterAgent._fallback_keyword_analysis: data_keywords
data_keywords ==
    <<<<"c","u","s","t","o","m","e","r">>,
      <<"a","c","c","o","u","n","t">>,
      <<"i","n","f","o","r","m","a","t","i","o","n">>,
      <<"d","e","t","a","i","l","s">>,
      <<"i","d">>,
      <<"e","m","a","i","l">>,
      <<"p","h","o","n","e">>>>

\* RouterAgent._fallback_keyword_analysis: support_keywords
support_keywords ==
    <<<<"h","e","l","p">>,
      <<"i","s","s","u","e">>,
      <<"p","r","o","b","l","e","m">>,
      <<"s","u","p","p","o","r","t">>,
      <<"t","i","c","k","e","t">>,
      <<"c","a","n","c","e","l">>,
      <<"r","e","f","u","n","d">>>>

\* required_agents as _fallback_keyword_analysis builds it, before list(set(...))
required_agents_of(query) ==
    LET query_lower == Lower(query)
    IN  (IF AnyKeyword(data_keywords, query_lower) THEN <<DataName>> ELSE <<>>)
        \o (IF AnyKeyword(support_keywords, query_lower) THEN <<SupportName>> ELSE <<>>)

\* what the text functions compute from a query, computed once per query
TextFactsOf(query) ==
    [operation |-> operation_of(query),
     customer_id |-> extract_customer_id(query),
     priority |-> assess_priority(query),
     required_agents |-> required_agents_of(query)]

TextFacts == [q \in TextQueries |-> TextFactsOf(Join(q))]

InitText ==
    /\ NoEngine
    /\ NoBus
    /\ text_query \in TextQueries
    /\ text_answer = NoAnswer

\* CustomerDataAgent.process infers the operation
InferOperation ==
    /\ "operation" \notin text_answer.done
    /\ text_answer' = [text_answer EXCEPT !.done = @ \cup {"operation"},
                                          !.operation = TextFacts[text_query].operation]
    /\ UNCHANGED <<engine_vars, bus_vars, text_query>>

ExtractCustomerId ==
    /\ "customer_id" \notin text_answer.done
    /\ text_answer' = [text_answer EXCEPT !.done = @ \cup {"customer_id"},
                                          !.customer_id = TextFacts[text_query].customer_id]
    /\ UNCHANGED <<engine_vars, bus_vars, text_query>>

AssessPriority ==
    /\ "priority" \notin text_answer.done
    /\ text_answer' = [text_answer EXCEPT !.done = @ \cup {"priority"},
                                          !.priority = TextFacts[text_query].priority]
    /\ UNCHANGED <<engine_vars, bus_vars, text_query>>

\* the orders in which iterating a set can yield its elements
Orders(S) ==
    {o \in [1..Cardinality(S) -> S] : \A i, j \in DOMAIN o : i # j => o[i] # o[j]}

\* list(set(required_agents)): the order of a set of strings is fixed within
\* one interpreter run and differs between runs
list_of_set(required_agents) == Orders(Range(required_agents))

\* _fallback_keyword_analysis, for the order the set is iterated in
fallback_keyword_analysis(required_agents, listed) ==
    [primary_intent |-> IF required_agents = <<>> THEN "unknown"
                        ELSE IF required_agents[1] = DataName THEN "customer_data"
                        ELSE "customer_support",
     requires_agents |-> listed,
     complexity |-> IF Len(required_agents) > 1 THEN "complex" ELSE "simple",
     method |-> "fallback_keywords"]

\* analyze_intent in a run where the classifier call raises
AnalyzeIntentFails ==
    /\ Len(text_answer.fallback) < MaxRuns
    /\ \E listed \in list_of_set(TextFacts[text_query].required_agents) :
          text_answer' = [text_answer EXCEPT
                        !.fallback = Append(@, fallback_keyword_analysis(
                                                  TextFacts[text_query].required_agents,
                                                  listed))]
    /\ UNCHANGED <<engine_vars, bus_vars, text_query>>

TextNext ==
    \/ InferOperation
    \/ ExtractCustomerId
    \/ AssessPriority
    \/ AnalyzeIntentFails

TextSpec == InitText /\ [][TextNext]_vars

(***************************************************************************)
(* Properties of the text functions.                                       *)
(***************************************************************************)
\* the query has a word that is a verb of the operation
HasVerb(operation) == \E i \in DOMAIN text_query : text_query[i].verb = operation

\* C27: the operation is inferred with the priority update verbs > list verbs
\* > retrieve: a query with an update verb is handled as update whatever
\* other verbs it has, a query with a list verb and no update verb as list.
C27_OperationPriority ==
    "operation" \in text_answer.done
       => /\ HasVerb("update") => text_answer.operation = "update"
          /\ HasVerb("list") /\ ~HasVerb("update") => text_answer.operation = "list"

\* the words of the query that are an instance of the ID pattern p
InstancesOf(p) == {i \in DOMAIN text_query : text_query[i].pattern = p}

\* the number of the leftmost instance of the first pattern, in the order
\* "id <n>", "customer <n>", "#<n>", that has an instance; <<>> if none has
ExpectedId ==
    IF InstancesOf(1) # {} THEN text_query[Leftmost(InstancesOf(1))].number
    ELSE IF InstancesOf(2) # {} THEN text_query[Leftmost(InstancesOf(2))].number
    ELSE IF InstancesOf(3) # {} THEN text_query[Leftmost(InstancesOf(3))].number
    ELSE <<>>

\* C28: extract_customer_id returns the match of the first pattern, in the
\* order "id <n>", "customer <n>", "#<n>", that matches anywhere in the query,
\* wherever the matches stand, and nothing when no pattern matches;
\* "please refund, customer 42, ticket #7" yields 42.
C28_FirstPatternWins ==
    "customer_id" \in text_answer.done
       => /\ text_answer.customer_id = ExpectedId
          /\ text_query = ExampleRefund => text_answer.customer_id = <<"4", "2">>

C28_Witness ==
    /\ "customer_id" \in text_answer.done
    /\ text_query = <<WordHash, WordId>>
    /\ text_answer.customer_id = <<"3">>

\* the query has a word that is a keyword of the tier
HasTier(tier) == \E i \in DOMAIN text_query : text_query[i].tier = tier

\* C29: assess_priority yields high for a query with a high-tier keyword,
\* also next to medium-tier keywords, medium for a query with medium-tier
\* keywords only, and low for any other query.
C29_HighestTierWins ==
    "priority" \in text_answer.done
       => text_answer.priority = IF HasTier("high") THEN "high"
                                 ELSE IF HasTier("medium") THEN "medium"
                                 ELSE "low"

C29_Witness ==
    /\ "priority" \in text_answer.done
    /\ text_query = <<WordUpgrade, WordUrgent>>
    /\ text_answer.priority = "high"

\* the handler router_node routes to first for an intent analysis
FirstHandler(intent) ==
    IF intent.requires_agents = <<>> THEN NoAgent
    ELSE agent_map[intent.requires_agents[1]]

\* C30: when the classifier call fails, analyze_intent returns the keyword
\* fallback, and two runs on the same query return the same result, with
\* requires_agents in the same order and so the same first handler.
C30_FallbackDeterministic ==
    \A i, j \in DOMAIN text_answer.fallback :
        /\ text_answer.fallback[i].method = "fallback_keywords"
        /\ text_answer.fallback[i] = text_answer.fallback[j]
        /\ FirstHandler(text_answer.fallback[i]) = FirstHandler(text_answer.fallback[j])

(***************************************************************************)
(* Further properties of the graph engine and its nodes.                   *)
(***************************************************************************)
\* the response holds the sentence "I've created a ...-priority ticket"
AcknowledgesTicket(response) ==
    \E i \in DOMAIN response : response[i].part = "I've created a ticket"

\* the ticketing collaborator was invoked in the run and reported a created ticket
TicketCreated ==
    /\ store.tickets > 0
    /\ state.tickets_data.kind = "list"
    /\ \E i \in DOMAIN state.tickets_data.items : state.tickets_data.items[i].success

\* C31: final_response acknowledges a created ticket only if the ticketing
\* collaborator was invoked in the run and reported a successfully created
\* ticket.
C31_AcknowledgmentMatchesTicket ==
    AcknowledgesTicket(state.final_response) => TicketCreated

\* the support node is called without customer data on a query that mentions a
\* customer
NeedsContext(s) ==
    ~HasData(s.customer_data) /\ QueryFacts[s.query].mentions_customer

\* C32: when the support node runs with customer_data empty and a query that
\* mentions a customer, it sets next_agent = data_agent, appends exactly one
\* message, addressed to data_agent, and returns: no ticketing call is made and
\* final_response, tickets_data, customer_data and status are unchanged.
C32_RedirectOnly ==
    [][Calling("support_agent_node") /\ NeedsContext(state) =>
          /\ state'.next_agent = "data_agent"
          /\ Len(state'.messages) = Len(state.messages) + 1
          /\ SubSeq(state'.messages, 1, Len(state.messages)) = state.messages
          /\ state'.messages[Len(state'.messages)].to = "data_agent"
          /\ state'.messages[Len(state'.messages)].from = "support_agent"
          /\ store' = store
          /\ state'.final_response = state.final_response
          /\ state'.tickets_data = state.tickets_data
          /\ state'.customer_data = state.customer_data
          /\ state'.status = state.status]_vars

\* the support node has returned from the redirect, called with a client that
\* could have created a ticket for a query that asks for one
C32_Witness ==
    /\ pc = "check"
    /\ Len(trace) = 1 /\ trace[1].node = "support_agent"
    /\ state.next_agent = "data_agent"
    /\ state.messages # <<>>
    /\ state.messages[Len(state.messages)].to = "data_agent"
    /\ QueryFacts[state.query].needs_ticket
    /\ mcp_client = "ToolClient"
    /\ state.final_response = <<>>

\* the classifier reported that the query needs both capabilities
NeedsBoth ==
    /\ Len(classifier_log) = 1
    /\ {"Customer Data Agent", "Support Agent"}
           \subseteq Range(classifier_log[1].requires_agents)

\* C33: when the classifier reports that a query needs both the data capability
\* and the support capability, the run on the standard graph executes data_agent
\* and afterwards support_agent, with the customer context present, before
\* router_final.
C33_SupportAfterData ==
    (StandardRun /\ NeedsBoth /\ store.up /\ Returned) =>
        \E i, j \in DOMAIN trace :
            /\ i < j
            /\ trace[i].node = "data_agent"
            /\ trace[j].node = "support_agent"
            /\ \A k \in 1..j : trace[k].node # "router_final"

\* the response is the safety-limit message increment_iteration writes
SafetyLimitMessage(response) ==
    \E i \in DOMAIN response : response[i].part = "Max coordination steps reached"

\* C38: a run is never reported as completed with the safety-limit message:
\* when execute returns a state whose final_response holds "Max coordination
\* steps reached", the status of that state is error.
C38_SafetyLimitIsError ==
    (Returned /\ SafetyLimitMessage(state.final_response)) => state.status = "error"

\* the nodes of the standard graph invoked so far, in order of invocation
InvokedCount(name) == Cardinality({i \in DOMAIN trace : trace[i].node = name})

InitRegistration ==
    /\ nodes = <<>>
    /\ routing_functions = <<>>
    /\ execution_log = <<>>
    /\ pc = "setup"
    /\ trace = <<>>
    /\ classifier_log = <<>>
    /\ state = NewAgentState(QueryGetInfo, "A", DefaultMaxIterations)
    /\ store = [up |-> TRUE, customers |-> {}, tickets |-> 0, updated |-> {}]
    /\ mcp_client = "None"
    /\ NoBus
    /\ NoText

\* d[name] = value on a dict
SetItem(d, name, value) ==
    [n \in DOMAIN d \cup {name} |-> IF n = name THEN value ELSE d[n]]

\* add_node(name, func)
add_node(name, func) ==
    /\ pc = "setup"
    /\ nodes' = SetItem(nodes, name, func)
    /\ UNCHANGED <<state, routing_functions, execution_log, pc, trace, store,
                   mcp_client, classifier_log>>
    /\ UNCHANGED <<bus_vars, text_vars>>

\* add_conditional_edges(from_node, routing_func)
add_conditional_edges(from_node, routing_func) ==
    /\ pc = "setup"
    /\ routing_functions' = SetItem(routing_functions, from_node, routing_func)
    /\ UNCHANGED <<state, nodes, execution_log, pc, trace, store, mcp_client,
                   classifier_log>>
    /\ UNCHANGED <<bus_vars, text_vars>>

AddNode ==
    \E name \in StubNames, func \in {"passive_stub", "free_stub"} :
        add_node(name, func)

AddConditionalEdges ==
    \E from_node \in StubNames,
       routing_func \in {"goto_A", "goto_B", "route_none", "router_routing"} :
        add_conditional_edges(from_node, routing_func)

RegistrationNext ==
    \/ AddNode
    \/ AddConditionalEdges

RegistrationSpec == InitRegistration /\ [][RegistrationNext]_vars

\* every entry of the dict d is an entry of the dict e
Keeps(d, e) == \A n \in DOMAIN d : n \in DOMAIN e /\ e[n] = d[n]

\* C37: registration is append-only: add_node and add_conditional_edges never
\* replace or remove an entry, so registering a name that is already registered
\* leaves the function bound to that name as it was.
C37_RegistrationAppendOnly ==
    [][Keeps(nodes, nodes') /\ Keeps(routing_functions, routing_functions')]_vars

(***************************************************************************)
(* Further properties of the bus variant.                                  *)
(***************************************************************************)
\* C40: message identifiers on the bus are unique and assigned in increasing
\* order of the counter: no two messages of the history carry the same id, and
\* a message logged later carries a larger id, whichever threads sent them.
C40_UniqueIncreasingIds ==
    \A i, j \in DOMAIN message_history :
        i < j => message_history[i].id < message_history[j].id

\* the replies of agent_name logged in the history
RepliesOf(agent_name) ==
    SelectSeq(message_history, LAMBDA m : m.from_agent = agent_name)

\* the pumps that hold a message of agent_name's inbox whose reply is not yet
\* logged: in process_message, or inside its send_message
Handling(agent_name) ==
    {k \in DOMAIN pumps :
        /\ Specialists[pumps[k].i] = agent_name
        /\ pumps[k].pc \in {"process"} \cup SendPcs}

QueryTicketStatus ==
    <<"W","h","a","t","'","s"," ","t","h","e"," ","s","t","a","t","u","s"," ","o","f"," ","t","i","c","k","e","t","s"," ","f","o","r"," ","a","l","l"," ","a","c","t","i","v","e"," ","c","u","s","t","o","m","e","r","s","?">>

lit_all == <<"a","l","l">>

lit_list == <<"l","i","s","t">>

\* the queries handed to process
ProcessQueries == {QueryAccountHelp, QueryTicketStatus}

\* the customers the list operation returns at most
MaxCustomers == 4

\* the substring tests process and its handlers make on the query
ProcessFactsOf(query) ==
    [all_or_list |-> IsSubstr(lit_all, Lower(query)) \/ IsSubstr(lit_list, Lower(query)),
     needs_data |-> IsSubstr(lit_id, Lower(query)) \/ IsSubstr(lit_customer, Lower(query))]

ProcessFacts == [query \in ProcessQueries |-> ProcessFactsOf(query)]

\* the intent analyses analyze_intent may return: the JSON format of its prompt,
\* which the keyword fallback also produces
Classifications ==
    {[requires_agents |-> r, complexity |-> c, primary_intent |-> p] :
        r \in {<<>>, <<DataName>>, <<SupportName>>, <<DataName, SupportName>>,
               <<SupportName, DataName>>},
        c \in {"simple", "moderate", "complex"},
        p \in {"customer_data", "customer_support", "both"}}

NoIntent == [requires_agents |-> <<>>, complexity |-> "", primary_intent |-> ""]

NoCall == [to_agent |-> "", query |-> ""]

\* what route_to_specialist returns: the data of the reply, or the error of a
\* timeout; customers is the length of the list under "customers"
Response(by, success, customers) ==
    [kind |-> "result", by |-> by, success |-> success, customers |-> customers,
     needs_context |-> FALSE]

TimedOut == Response("", FALSE, 0)

\* the handler calls route_to_specialist
Call(r, agent_name, what, stage) ==
    [r EXCEPT !.pc = "send", !.call = [to_agent |-> agent_name, query |-> what],
              !.stage = stage]

\* the handler returns
Return(r) == [r EXCEPT !.pc = "returned", !.call = NoCall]

\* process: the choice of the handler
dispatch(query, intent) ==
    IF intent.requires_agents = <<>> THEN "clarify"
    ELSE IF \/ intent.complexity = "simple"
            \/ intent.primary_intent = "customer_support" /\ intent.complexity = "moderate"
    THEN "task_allocation"
    ELSE IF intent.complexity = "complex" /\ Len(intent.requires_agents) > 1
    THEN "negotiation"
    ELSE IF ProcessFacts[query].all_or_list
    THEN "multi_step"
    ELSE "task_allocation"

\* _handle_task_allocation, from its entry or from the return of a call
handle_task_allocation(r, result) ==
    LET required_agents == Range(r.intent.requires_agents)
    IN  CASE r.stage = "entry" ->
                IF DataName \in required_agents /\ SupportName \notin required_agents
                THEN Call(r, DataName, "query", "data_only")
                ELSE IF SupportName \in required_agents
                THEN IF ProcessFacts[r.query].needs_data
                     THEN Call(r, DataName, "query", "data_first")
                     ELSE Call(r, SupportName, "query", "support")
                ELSE Return(r)
          [] r.stage = "data_first" ->
                Call([r EXCEPT !.context = result.success], SupportName, "query",
                     "support")
          [] OTHER -> Return(r)

\* _handle_negotiation
handle_negotiation(r, result) ==
    CASE r.stage = "entry" -> Call(r, SupportName, "query", "asked_support")
      [] r.stage = "asked_support" ->
            IF result.needs_context
            THEN Call(r, DataName, "missing_info", "asked_data")
            ELSE Return(r)
      [] r.stage = "asked_data" -> Call(r, SupportName, "query", "support")
      [] OTHER -> Return(r)

\* _handle_multi_step: the loop over customers[:3]
next_customer(r) ==
    IF r.i < r.customers
    THEN Call([r EXCEPT !.i = @ + 1], SupportName, "ticket", "ticket")
    ELSE Return(r)

\* _handle_multi_step
handle_multi_step(r, result) ==
    CASE r.stage = "entry" -> Call(r, DataName, "list", "listed")
      [] r.stage = "listed" ->
            IF ~result.success THEN Return(r)
            ELSE next_customer([r EXCEPT !.customers =
                                   IF result.customers < 3 THEN result.customers ELSE 3])
      [] OTHER -> next_customer(r)

\* the handler goes on until its next call of route_to_specialist or its return
Handle(r, result) ==
    CASE r.handler = "task_allocation" -> handle_task_allocation(r, result)
      [] r.handler = "negotiation" -> handle_negotiation(r, result)
      [] r.handler = "multi_step" -> handle_multi_step(r, result)
      [] OTHER -> Return(r)

\* A2ACoordinator.__init__ and the call of router.process(query)
InitProcess ==
    /\ NoEngine
    /\ NoText
    /\ inboxes = [n \in AgentNames |-> <<>>]
    /\ message_history = <<>>
    /\ message_counter = 0
    /\ running = TRUE
    /\ pumps = <<>>
    /\ received = [n \in AgentNames |-> <<>>]
    /\ outcome = [op |-> "none"]
    /\ \E query \in ProcessQueries :
          router = [pc |-> "analyze", query |-> query, intent |-> NoIntent,
                    handler |-> "none", stage |-> "entry", call |-> NoCall,
                    i |-> 0, customers |-> 0, context |-> FALSE]

\* process up to the first call of route_to_specialist
AnalyzeIntent ==
    /\ router.pc = "analyze"
    /\ \E intent \in Classifications :
          router' = Handle([router EXCEPT !.intent = intent,
                                          !.handler = dispatch(router.query, intent)],
                           TimedOut)
    /\ UNCHANGED <<inboxes, message_history, message_counter, running, pumps,
                   received, outcome>>
    /\ UNCHANGED <<engine_vars, text_vars>>

\* route_to_specialist: the request is sent
AskSpecialist ==
    /\ router.pc = "send"
    /\ send_message(RouterName, router.call.to_agent, "Please process",
                    [kind |-> "request", query |-> router.call.query,
                     customer |-> router.i])
    /\ router' = [router EXCEPT !.pc = "receive"]
    /\ UNCHANGED <<running, pumps, received>>
    /\ UNCHANGED <<engine_vars, text_vars>>

\* the results process or process_message may produce for a request: the list
\* operation returns up to MaxCustomers customers, any operation may fail
ResultsFor(agent_name, query, request) ==
    IF /\ agent_name = DataName
       /\ \/ request.query = "list"
          \/ request.query = "query" /\ ProcessFacts[query].all_or_list
    THEN {Response(agent_name, TRUE, n) : n \in 0..MaxCustomers}
         \cup {Response(agent_name, FALSE, 0)}
    ELSE {Response(agent_name, ok, 0) : ok \in BOOLEAN}

\* the pump takes a request from a specialist's inbox and the specialist replies
SpecialistReplies ==
    /\ \E agent_name \in Callees :
          /\ has_messages(inboxes, agent_name)
          /\ \E result \in ResultsFor(agent_name, router.query,
                                      Head(inboxes[agent_name]).data) :
                LET request == Head(inboxes[agent_name])
                    reply == Message(message_counter + 1, agent_name,
                                     request.from_agent, "Query processed", result)
                IN  /\ message_counter' = message_counter + 1
                    /\ inboxes' = put(get(inboxes, agent_name), request.from_agent, reply)
                    /\ message_history' = Append(message_history, reply)
                    /\ received' = [received EXCEPT ![agent_name] = Append(@, request)]
    /\ UNCHANGED <<running, router, pumps, outcome>>
    /\ UNCHANGED <<engine_vars, text_vars>>

\* route_to_specialist: receive_message returns a reply or times out, and the
\* handler goes on with the result
AwaitSpecialist ==
    /\ router.pc = "receive"
    /\ IF has_messages(inboxes, RouterName)
       THEN /\ router' = Handle(router, Head(inboxes[RouterName]).data)
            /\ inboxes' = get(inboxes, RouterName)
            /\ received' = [received EXCEPT ![RouterName] =
                               Append(@, Head(inboxes[RouterName]))]
       ELSE /\ router' = Handle(router, TimedOut)
            /\ UNCHANGED <<inboxes, received>>
    /\ UNCHANGED <<message_history, message_counter, running, pumps, outcome>>
    /\ UNCHANGED <<engine_vars, text_vars>>

ProcessNext ==
    \/ AnalyzeIntent
    \/ AskSpecialist
    \/ SpecialistReplies
    \/ AwaitSpecialist

ProcessSpec == InitProcess /\ [][ProcessNext]_vars

\* the requests the router has sent, in the order of the history
Requests == SelectSeq(message_history, LAMBDA m : m.from_agent = RouterName)

RequestsTo(agent_name) == SelectSeq(Requests, LAMBDA m : m.to_agent = agent_name)

\* C35: task allocation on the bus: for the query "I need help with my account,
\* customer ID 1" and every classification that requires Support Agent, the
\* router first sends a request to Customer Data Agent and, after its reply or
\* timeout, a request to Support Agent: the history of the run holds a message
\* to each of the two, the one to Customer Data Agent first.
C35_DataBeforeSupport ==
    (/\ router.pc = "returned"
     /\ router.query = QueryAccountHelp
     /\ SupportName \in Range(router.intent.requires_agents)) =>
        /\ RequestsTo(DataName) # <<>>
        /\ RequestsTo(SupportName) # <<>>
        /\ Requests[1].to_agent = DataName

\* C36: multi-step on the bus: for the query "What's the status of tickets for
\* all active customers?" and every classification that names an agent, process
\* sends one list request to Customer Data Agent and then one request to Support
\* Agent per listed customer, at most 3: with two or more customers listed, two
\* or more messages to Support Agent are in the history.
C36_OneRequestPerCustomer ==
    (/\ router.pc = "returned"
     /\ router.query = QueryTicketStatus
     /\ router.intent.requires_agents # <<>>) =>
        /\ Len(RequestsTo(DataName)) = 1
        /\ Requests[1].to_agent = DataName
        /\ Requests[1].data.query = "list"
        /\ Len(RequestsTo(SupportName)) = router.customers

====
